---- MODULE Spec2Model ----
(***************************************************************************)
(* Model of the tristan date / time / date_time value types               *)
(* (src/src/date.cpp, src/src/time.cpp, src/src/date_time.cpp).            *)
(*                                                                         *)
(* Every object is a small state machine: "new" until a constructor has   *)
(* run, then mutated by the member functions.  A C++ exception leaving a  *)
(* function is recorded in the err field of the object's history record.  *)
(* Fixed-width integer conversions of the source are kept (U8, U16).      *)
(***************************************************************************)
EXTENDS Integers, Sequences, FiniteSets, TLC

VARIABLES
    m_days_since_1900,       \* Date::m_days_since_1900 (count of Days)
    date_hist,               \* how the Date got here: constructor input, calls made
    m_time_since_day_start,  \* Time::m_time_since_day_start: [alt, count]
    m_precision,             \* Time::m_precision
    m_offset,                \* Time::m_offset
    time_hist,               \* how the Time got here: constructor input, calls made
    dt_a,                    \* a DateTime: [m_date, m_time]
    dt_b,                    \* another DateTime: [m_date, m_time]
    dt_result,               \* what the last comparison of dt_a with dt_b returned
    fmt,                     \* the formatter slots of Date, Time, DateTime and their callers
    logger                   \* a Log object, the static message_index and its callers

date_vars == <<m_days_since_1900, date_hist>>
time_vars == <<m_time_since_day_start, m_precision, m_offset, time_hist>>
date_time_vars == <<dt_a, dt_b, dt_result>>
format_vars == <<fmt>>
log_vars == <<logger>>

vars == <<m_days_since_1900, date_hist, m_time_since_day_start, m_precision, m_offset,
          time_hist, dt_a, dt_b, dt_result, fmt, logger>>

----------------------------------------------------------------------------
(* Integer conversions of the C++ source.                                  *)

\* static_cast / implicit conversion to uint8_t
U8(x) == x % 256

\* static_cast / implicit conversion to uint16_t
U16(x) == x % 65536

\* C++ integer division truncates toward zero
TruncDiv(a, b) == IF a >= 0 THEN a \div b ELSE -((-a) \div b)

----------------------------------------------------------------------------
(* date.cpp: constants of the unnamed namespace.                           *)

g_non_leap_year_days == 365
g_leap_year_days == 366
g_start_year == 1900
g_days_since_1900_to_1970 == 25567

\* std::chrono::hours and Days in seconds (the periods duration_cast uses)
g_seconds_in_hour == 3600
g_seconds_in_day == 86400

JANUARY == 1
FEBRUARY == 2
MARCH == 3
APRIL == 4
MAY == 5
JUNE == 6
JULY == 7
AUGUST == 8
SEPTEMBER == 9
OCTOBER == 10
NOVEMBER == 11
DECEMBER == 12

\* g_february_start_day and the g_<month>_start_day pairs {non-leap, leap}
g_february_start_day == 32
g_month_start_day ==
    [m \in 3..12 |->
        CASE m = 3 -> <<60, 61>>
          [] m = 4 -> <<91, 92>>
          [] m = 5 -> <<121, 122>>
          [] m = 6 -> <<152, 153>>
          [] m = 7 -> <<182, 183>>
          [] m = 8 -> <<213, 214>>
          [] m = 9 -> <<244, 245>>
          [] m = 10 -> <<274, 275>>
          [] m = 11 -> <<305, 306>>
          [] m = 12 -> <<335, 336>>]

----------------------------------------------------------------------------
(* date.cpp: Date                                                          *)

\* the Julian rule: every fourth year
EveryFourthYear(year) == U16(year) % 4 = 0

\* Date::isLeapYear(uint16_t year)
isLeapYear(year) ==
    LET y == U16(year) IN
    IF y % 4 = 0
    THEN IF y % 100 = 0
         THEN (y % 400 = 0)
         ELSE TRUE
    ELSE FALSE

\* Date::_calculateCurrentYear() -> uint8_t, on a day count c
calculateCurrentYear(c) ==
    LET number_of_leap_days == U8(TruncDiv(c, g_non_leap_year_days * 4))
    IN U8(TruncDiv(c - number_of_leap_days, g_non_leap_year_days))

\* Date::_calculateDaysInYear() -> uint16_t
calculateDaysInYear(c) ==
    LET nld0 == U8(TruncDiv(c, g_non_leap_year_days * 4))
        number_of_leap_days ==
            IF isLeapYear(calculateCurrentYear(c) + g_start_year)
            THEN U8(nld0 - 1)
            ELSE nld0
        years == calculateCurrentYear(c)
    IN U16(c - years * g_non_leap_year_days - number_of_leap_days)

\* Date::_calculateCurrentMonth() -> uint8_t: the if / else-if chain from
\* DECEMBER down to JANUARY
RECURSIVE MonthFrom(_, _, _)
MonthFrom(m, leap_year, days_since_year_start) ==
    IF m >= MARCH
    THEN IF (~leap_year /\ days_since_year_start >= g_month_start_day[m][1])
            \/ (leap_year /\ days_since_year_start >= g_month_start_day[m][2])
         THEN m
         ELSE MonthFrom(m - 1, leap_year, days_since_year_start)
    ELSE IF days_since_year_start >= g_february_start_day
         THEN FEBRUARY
         ELSE JANUARY

calculateCurrentMonth(c) ==
    MonthFrom(DECEMBER,
              isLeapYear(calculateCurrentYear(c) + g_start_year),
              calculateDaysInYear(c))

\* the 31 / 30 / 28-29 test used by the constructor and _calculateDayOfTheMonth
MonthLen(month, leap_year) ==
    IF month \in {1, 3, 5, 7, 8, 10, 12} THEN 31
    ELSE IF month \in {4, 6, 9, 11} THEN 30
    ELSE IF ~leap_year THEN 28 ELSE 29

\* Date::_calculateDayOfTheMonth() -> uint8_t: the loop from month()-1 down
\* to JANUARY on a uint16_t accumulator
RECURSIVE DayOfMonthLoop(_, _, _)
DayOfMonthLoop(month, days_in_month, c) ==
    IF month >= JANUARY
    THEN DayOfMonthLoop(
             month - 1,
             U16(days_in_month
                 - MonthLen(month, isLeapYear(calculateCurrentYear(c) + g_start_year))),
             c)
    ELSE days_in_month

calculateDayOfTheMonth(c) ==
    U8(DayOfMonthLoop(calculateCurrentMonth(c) - 1, calculateDaysInYear(c), c))

\* Date::dayOfTheMonth / month / year / dayOfTheWeek / isWeekend
dayOfTheMonth(c) == calculateDayOfTheMonth(c)
month(c) == calculateCurrentMonth(c)
year(c) == U16(calculateCurrentYear(c) + g_start_year)
dayOfTheWeek(c) == U8(c - 7 * TruncDiv(c, 7))
isWeekend(c) == dayOfTheWeek(c) > 5

\* the range tests of the three fields alone, without the month lengths
FieldRangeTests(p_day, p_month, p_year) ==
    \/ p_year < g_start_year
    \/ p_day < 1 \/ p_day > 31
    \/ p_month < 1 \/ p_month > 12

\* Date::Date(uint8_t day, uint8_t month, uint16_t year): the validation
\* (lines 76-101); TRUE when std::range_error is thrown
DateCtorThrows(p_day, p_month, p_year) ==
    \/ p_year < g_start_year
    \/ p_day < 1 \/ p_day > 31
    \/ p_month < 1 \/ p_month > 12
    \/ (p_month \in {4, 6, 9, 11} /\ p_day = 31)
    \/ (p_month = 2 /\ ((isLeapYear(p_year) /\ p_day > 29) \/ (~isLeapYear(p_year) /\ p_day > 28)))

\* the month loop of the constructor (lines 107-120): the February length
\* is decided from the running count
RECURSIVE CtorMonthLoop(_, _, _)
CtorMonthLoop(l_month, p_month, c) ==
    IF l_month < p_month
    THEN CtorMonthLoop(
             l_month + 1, p_month,
             c + MonthLen(l_month,
                          isLeapYear(TruncDiv(c, g_non_leap_year_days) + g_start_year)))
    ELSE c

\* Date::Date(uint8_t day, uint8_t month, uint16_t year): the day count
\* (lines 102-121) for an accepted triple
DateCtorDays(p_day, p_month, p_year) ==
    LET c0 == (p_year - g_start_year) * g_non_leap_year_days
        c1 == c0 + U8(TruncDiv(calculateCurrentYear(c0) * 365,
                               g_non_leap_year_days * 4))
    IN CtorMonthLoop(1, p_month, c1) + p_day

\* Date::addDays / Date::subtractDays
addDays(c, days) == IF days = 0 THEN c ELSE c + days
\* a subtractDays that moves forward
subtractDaysForward(c, days) == IF days = 0 THEN c ELSE c + days
subtractDays(c, days) == IF days = 0 THEN c ELSE c - days

\* one pass of the branch chain of Date::addMonths (lines 195-243): the
\* number of days added for current_month / current_date
AddMonthsStep(current_month, current_date, c) ==
    IF \/ (current_month = JANUARY /\ current_date < 29)
       \/ (current_month = MARCH /\ current_date < 31)
       \/ (current_month = MAY /\ current_date < 31)
       \/ current_month = JULY
       \/ (current_month = AUGUST /\ current_date < 31)
       \/ (current_month = OCTOBER /\ current_date < 31)
       \/ current_month = DECEMBER
    THEN 31
    ELSE IF \/ current_month \in {FEBRUARY, APRIL, JUNE, SEPTEMBER, NOVEMBER}
            \/ (current_month \in {MARCH, MAY, AUGUST, OCTOBER} /\ current_date = 31)
    THEN 30
    ELSE IF current_month = JANUARY /\ current_date >= 29
    THEN IF ~isLeapYear(calculateCurrentYear(c) + g_start_year)
         THEN CASE current_date = 29 -> 30
                [] current_date = 30 -> 29
                [] current_date = 31 -> 28
                [] OTHER -> 0
         ELSE CASE current_date = 29 -> 31
                [] current_date = 30 -> 30
                [] current_date = 31 -> 29
                [] OTHER -> 0
    ELSE 0

\* the for loop of Date::addMonths (lines 188-245) and the final addDays
RECURSIVE AddMonthsLoop(_, _, _, _, _, _)
AddMonthsLoop(l_month, months, current_month, current_date, days_to_add, c) ==
    IF l_month < months
    THEN LET c2 == IF current_month = 13 THEN addDays(c, days_to_add) ELSE c
             dta == IF current_month = 13 THEN 0 ELSE days_to_add
             cm == IF current_month = 13 THEN calculateCurrentMonth(c2) ELSE current_month
             cd == IF current_month = 13 THEN calculateDayOfTheMonth(c2) ELSE current_date
         IN AddMonthsLoop(l_month + 1, months, U8(cm + 1), cd,
                          dta + AddMonthsStep(cm, cd, c2), c2)
    ELSE addDays(c, days_to_add)

\* Date::addMonths(uint64_t months)
addMonths(c, months) ==
    IF months = 0 THEN c
    ELSE AddMonthsLoop(0, months, calculateCurrentMonth(c),
                       calculateDayOfTheMonth(c), 0, c)

\* the for loop of Date::addYears (lines 255-269)
RECURSIVE AddYearsLoop(_, _, _, _)
AddYearsLoop(yr, end_year, days_in_year, days_to_add) ==
    IF yr < end_year
    THEN AddYearsLoop(
             yr + 1, end_year, days_in_year,
             days_to_add
               + (IF days_in_year < 60
                  THEN (IF isLeapYear(yr) THEN 366 ELSE 364)
                  ELSE (IF isLeapYear(yr + 1) THEN 366 ELSE 365)))
    ELSE days_to_add

\* Date::addYears(uint64_t years)
addYears(c, years) ==
    IF years = 0 THEN c
    ELSE LET y0 == calculateCurrentYear(c) + g_start_year
         IN addDays(c, AddYearsLoop(y0, y0 + years, calculateDaysInYear(c), 0))

\* one pass of the branch chain of Date::subtractMonths (lines 294-312)
SubtractMonthsStep(current_month, current_date, c) ==
    IF \/ current_month \in {JANUARY, NOVEMBER, SEPTEMBER, AUGUST, JUNE, FEBRUARY}
       \/ (current_month \in {DECEMBER, OCTOBER, JULY, MAY} /\ current_date = 31)
    THEN 31
    ELSE IF current_month \in {DECEMBER, OCTOBER, JULY, MAY}
    THEN 30
    ELSE IF current_month = MARCH
    THEN IF current_date > 28
         THEN current_date
         ELSE IF ~isLeapYear(calculateCurrentYear(c) + g_start_year) THEN 28 ELSE 29
    ELSE 0

\* the for loop of Date::subtractMonths (lines 287-314) and the final
\* subtractDays
RECURSIVE SubtractMonthsLoop(_, _, _, _, _, _)
SubtractMonthsLoop(l_month, months, current_month, current_date, days_to_subtract, c) ==
    IF l_month < months
    THEN LET c2 == IF current_month = 0 THEN subtractDays(c, days_to_subtract) ELSE c
             dts == IF current_month = 0 THEN 0 ELSE days_to_subtract
             cm == IF current_month = 0 THEN calculateCurrentMonth(c2) ELSE current_month
             cd == IF current_month = 0 THEN calculateDayOfTheMonth(c2) ELSE current_date
         IN SubtractMonthsLoop(l_month + 1, months, U8(cm - 1), cd,
                               dts + SubtractMonthsStep(cm, cd, c2), c2)
    ELSE subtractDays(c, days_to_subtract)

\* Date::subtractMonths(uint64_t months)
subtractMonths(c, months) ==
    IF months = 0 THEN c
    ELSE SubtractMonthsLoop(0, months, calculateCurrentMonth(c),
                            calculateDayOfTheMonth(c), 0, c)

\* the for loop of Date::subtractYears (lines 324-340)
RECURSIVE SubtractYearsLoop(_, _, _, _)
SubtractYearsLoop(yr, end_year, days_in_year, days_to_subtract) ==
    IF yr > end_year
    THEN SubtractYearsLoop(
             yr - 1, end_year, days_in_year,
             days_to_subtract
               + (IF isLeapYear(yr)
                  THEN (IF days_in_year < 60 THEN g_non_leap_year_days ELSE g_leap_year_days)
                  ELSE IF isLeapYear(yr - 1)
                  THEN (IF days_in_year <= 59 THEN g_leap_year_days ELSE g_non_leap_year_days)
                  ELSE g_non_leap_year_days))
    ELSE days_to_subtract

\* Date::subtractYears(uint64_t years); end_year = year - years is a
\* uint64_t: when years > year it wraps to a huge value and the loop body
\* never runs
subtractYears(c, years) ==
    IF years = 0 THEN c
    ELSE LET y0 == calculateCurrentYear(c) + g_start_year
         IN IF years > y0
            THEN subtractDays(c, 0)
            ELSE subtractDays(c, SubtractYearsLoop(y0, y0 - years, calculateDaysInYear(c), 0))

\* Date::operator== / Date::operator< and the free operators derived from them
DateEq(l, r) == l = r
DateLt(l, r) == l < r
DateNe(l, r) == ~DateEq(l, r)
DateGt(l, r) == ~DateLt(l, r)
DateLe(l, r) == DateLt(l, r) \/ DateEq(l, r)
DateGe(l, r) == DateGt(l, r) \/ DateEq(l, r)

----------------------------------------------------------------------------
(* std::string as a sequence of one-character strings, with the library   *)
(* conversions the sources use.                                            *)

DigitChars == <<"0", "1", "2", "3", "4", "5", "6", "7", "8", "9">>

IsDigit(ch) == \E i \in 1..10 : DigitChars[i] = ch

DigitVal(ch) == (CHOOSE i \in 1..10 : DigitChars[i] = ch) - 1

\* std::to_string on a non-negative integer
RECURSIVE to_string(_)
to_string(n) ==
    IF n < 10 THEN <<DigitChars[n + 1]>>
    ELSE to_string(n \div 10) \o <<DigitChars[(n % 10) + 1]>>

\* std::string::substr(pos, len)
substr(s, pos, len) ==
    SubSeq(s, pos + 1, IF pos + len > Len(s) THEN Len(s) ELSE pos + len)

\* the digit run read by std::stoi starting at index i (1-based)
RECURSIVE StoiDigits(_, _, _)
StoiDigits(s, i, acc) ==
    IF i <= Len(s) /\ IsDigit(s[i])
    THEN StoiDigits(s, i + 1, acc * 10 + DigitVal(s[i]))
    ELSE acc

\* std::stoi: leading blanks, an optional sign, then decimal digits up to
\* the first other character; ok = FALSE when std::invalid_argument is
\* thrown (no digit to convert)
RECURSIVE stoi(_)
stoi(s) ==
    IF Len(s) > 0 /\ s[1] = " " THEN stoi(Tail(s))
    ELSE LET signed == Len(s) > 0 /\ s[1] \in {"+", "-"}
             first == IF signed THEN 2 ELSE 1
             mag == StoiDigits(s, first, 0)
         IN IF first <= Len(s) /\ IsDigit(s[first])
            THEN [ok |-> TRUE, val |-> IF signed /\ s[1] = "-" THEN -mag ELSE mag]
            ELSE [ok |-> FALSE, val |-> 0]

----------------------------------------------------------------------------
(* date.cpp: string conversions of Date                                    *)

\* g_default_global_formatter of date.cpp
DateDefaultFormat(c) ==
    to_string(year(c))
      \o <<"-">> \o (IF month(c) < 10 THEN <<"0">> ELSE <<>>) \o to_string(month(c))
      \o <<"-">> \o (IF dayOfTheMonth(c) < 10 THEN <<"0">> ELSE <<>>)
      \o to_string(dayOfTheMonth(c))

\* Date::Date(const std::string& iso_date): the outcome as a record
\* [err, days]; err is "none", "invalid_argument" or "range_error"
DateFromIso(iso_date) ==
    LET length == Len(iso_date)
        bad_char == \E i \in 1..length : ~IsDigit(iso_date[i]) /\ iso_date[i] # "-"
        y == stoi(substr(iso_date, 0, 4))
        m == IF length = 8 THEN stoi(substr(iso_date, 4, 2)) ELSE stoi(substr(iso_date, 5, 2))
        d == IF length = 8 THEN stoi(substr(iso_date, 6, 2)) ELSE stoi(substr(iso_date, 8, 2))
    IN IF length # 8 /\ length # 10 THEN [err |-> "invalid_argument", days |-> 0]
       ELSE IF bad_char THEN [err |-> "invalid_argument", days |-> 0]
       ELSE IF ~y.ok \/ ~m.ok \/ ~d.ok THEN [err |-> "invalid_argument", days |-> 0]
       ELSE IF DateCtorThrows(U8(d.val), U8(m.val), U16(y.val))
            THEN [err |-> "range_error", days |-> 0]
            ELSE [err |-> "none", days |-> DateCtorDays(U8(d.val), U8(m.val), U16(y.val))]

----------------------------------------------------------------------------
(* 64-bit counts.  The durations of time.cpp are int64_t / uint64_t and    *)
(* reach 8.64e13 (nanoseconds in a day), beyond the integers TLC computes  *)
(* with, so a count is kept as two limbs: value = hi * Base + lo, with     *)
(* 0 <= lo < Base and hi carrying the sign.                                *)

Base == 1000 * 1000

BigNorm(h, l) == [hi |-> h + (l \div Base), lo |-> l % Base]
BigOf(n) == BigNorm(0, n)
BigZero == BigOf(0)
BigToInt(a) == a.hi * Base + a.lo

BigAdd(a, b) == BigNorm(a.hi + b.hi, a.lo + b.lo)
BigSub(a, b) == BigNorm(a.hi - b.hi, a.lo - b.lo)
BigNeg(a) == BigSub(BigZero, a)
BigLt(a, b) == a.hi < b.hi \/ (a.hi = b.hi /\ a.lo < b.lo)
BigLe(a, b) == ~BigLt(b, a)
BigGt(a, b) == BigLt(b, a)
BigIsZero(a) == a.hi = 0 /\ a.lo = 0
\* a * k for a small factor k (0 <= k <= 1000)
BigScale(a, k) == BigNorm(a.hi * k, a.lo * k)

\* a \div 1000 for a >= 0
BigShift3(a) == [hi |-> a.hi \div 1000, lo |-> ((a.hi % 1000) * Base + a.lo) \div 1000]

\* a * c for a, c >= 0 (schoolbook, c taken three decimal digits at a time)
RECURSIVE BigMul(_, _)
BigMul(a, c) ==
    IF BigIsZero(c) THEN BigZero
    ELSE BigAdd(BigScale(a, c.lo % 1000), BigScale(BigMul(a, BigShift3(c)), 1000))

\* quotient and remainder of a / d for a >= 0 and a divisor d of two limbs
\* (long division, one octal digit of the quotient per level)
RECURSIVE BigDivModLong(_, _)
BigDivModLong(a, d) ==
    IF BigLt(a, d) THEN [q |-> BigZero, r |-> a]
    ELSE LET h == BigDivModLong(a, BigScale(d, 8))
             k == CHOOSE k \in 0..7 :
                      BigLe(BigScale(d, k), h.r) /\ BigLt(h.r, BigScale(d, k + 1))
         IN [q |-> BigAdd(BigScale(h.q, 8), BigOf(k)), r |-> BigSub(h.r, BigScale(d, k))]

\* quotient and remainder of a / d for a >= 0, d > 0: limb by limb for a
\* divisor below Base (the low limb taken three digits at a time),
\* directly for a multiple of Base
BigDivMod(a, d) ==
    IF d.hi = 0
    THEN LET k == d.lo
             q1 == a.hi \div k
             m == (a.hi % k) * 1000 + (a.lo \div 1000)
             q2 == m \div k
             l == (m % k) * 1000 + (a.lo % 1000)
         IN [q |-> BigAdd([hi |-> q1, lo |-> 0], BigAdd(BigScale(BigOf(q2), 1000), BigOf(l \div k))),
             r |-> BigOf(l % k)]
    ELSE IF d.lo = 0
    THEN [q |-> BigOf(a.hi \div d.hi), r |-> [hi |-> a.hi % d.hi, lo |-> a.lo]]
    ELSE BigDivModLong(a, d)

\* C++ integer / and % on a signed count: truncation toward zero, the
\* remainder takes the sign of the dividend
BigDiv(a, d) == IF a.hi < 0 THEN BigNeg(BigDivMod(BigNeg(a), d).q) ELSE BigDivMod(a, d).q
BigRem(a, d) == IF a.hi < 0 THEN BigNeg(BigDivMod(BigNeg(a), d).r) ELSE BigDivMod(a, d).r

\* conversion of a count to uint8_t / uint16_t
BigU8(a) == (((a.hi % 256) * (Base % 256)) + a.lo) % 256
BigU16(a) == (((a.hi % 65536) * (Base % 65536)) + a.lo) % 65536

----------------------------------------------------------------------------
(* time.hpp / time.cpp: Time                                               *)
(*                                                                         *)
(* A Time value is a record [alt, count, precision, offset]: alt is the    *)
(* index of the alternative held by the std::variant                       *)
(* m_time_since_day_start, count its tick count, precision is m_precision  *)
(* and offset is m_offset.                                                 *)

\* enum class Precision : uint8_t; the variant's alternatives are listed in
\* the same order, so the same numbers index them.  HOURS only names the
\* unit std::chrono::hours.
MINUTES == 0
HOURS == MINUTES - 1
SECONDS == 1
MILLISECONDS == 2
MICROSECONDS == 3
NANOSECONDS == 4

UTC == 0

\* nanoseconds in one tick of each unit (the periods of std::chrono)
NsIn(u) ==
    CASE u = HOURS -> [hi |-> 3600000, lo |-> 0]
      [] u = MINUTES -> [hi |-> 60000, lo |-> 0]
      [] u = SECONDS -> [hi |-> 1000, lo |-> 0]
      [] u = MILLISECONDS -> [hi |-> 1, lo |-> 0]
      [] u = MICROSECONDS -> BigOf(1000)
      [] u = NANOSECONDS -> BigOf(1)

\* the constants <unit>_in_day of time.cpp, by precision
in_day ==
    [p \in MINUTES..NANOSECONDS |->
        CASE p = MINUTES -> BigOf(1440)
          [] p = SECONDS -> BigOf(86400)
          [] p = MILLISECONDS -> BigOf(86400000)
          [] p = MICROSECONDS -> [hi |-> 86400, lo |-> 0]
          [] p = NANOSECONDS -> [hi |-> 86400000, lo |-> 0]]

\* the constants <fine>_in_<coarse> of time.cpp: ticks of unit fine in one
\* tick of unit coarse (in_unit[HOURS][SECONDS] is seconds_in_hour)
in_unit ==
    [coarse \in HOURS..NANOSECONDS |->
        [fine \in MINUTES..NANOSECONDS |->
            IF fine >= coarse THEN BigDiv(NsIn(coarse), NsIn(fine)) ELSE BigZero]]

\* std::chrono::duration_cast of a count from unit from to unit to
duration_cast(count, from, to) ==
    IF to >= from
    THEN BigMul(count, BigDiv(NsIn(from), NsIn(to)))
    ELSE BigDiv(count, BigDiv(NsIn(to), NsIn(from)))

\* the result of a call: the object as the call left it, and the
\* exception that left the call ("none" when it returned)
Ok(t) == [t |-> t, err |-> "none"]
Throw(t, e) == [t |-> t, err |-> e]
Then(r, F(_)) == IF r.err # "none" THEN r ELSE F(r.t)

\* Time::_addMinutes .. Time::_addNanoseconds; p selects the function.
\* std::get throws std::bad_variant_access when the variant holds another
\* alternative.
PrivAdd(p, t, n) ==
    IF t.alt # p THEN Throw(t, "bad_variant_access")
    ELSE LET l == BigAdd(t.count, n)
             over == IF p >= MICROSECONDS /\ l.hi < 0
                     THEN TRUE
                     ELSE BigGt(l, in_day[p])
         IN Ok([t EXCEPT !.count = IF over THEN BigRem(l, in_day[p]) ELSE l])

\* Time::_subtractMinutes .. Time::_subtractNanoseconds
PrivSubtract(p, t, n) ==
    IF t.alt # p THEN Throw(t, "bad_variant_access")
    ELSE LET l == BigSub(t.count, n)
         IN Ok([t EXCEPT !.count = IF l.hi < 0 THEN BigAdd(l, in_day[p]) ELSE l])

\* the two directions share the switch statements of the public functions
Priv(sub, p, t, n) == IF sub THEN PrivSubtract(p, t, n) ELSE PrivAdd(p, t, n)

\* Time::addHours / Time::subtractHours
HoursCall(sub, t, hours) ==
    IF BigIsZero(hours) THEN Ok(t)
    ELSE LET h == IF BigGt(hours, BigOf(23)) THEN BigRem(hours, BigOf(24)) ELSE hours
         IN Priv(sub, t.precision, t, BigMul(h, in_unit[HOURS][t.precision]))

\* Time::addMinutes / Time::subtractMinutes
MinutesCall(sub, t, minutes) ==
    IF BigIsZero(minutes) THEN Ok(t)
    ELSE LET m == IF BigGt(minutes, in_day[MINUTES])
                  THEN BigRem(minutes, in_day[MINUTES])
                  ELSE minutes
         IN Priv(sub, t.precision, t, BigMul(m, in_unit[MINUTES][t.precision]))

\* Time::addSeconds .. addNanoseconds / subtractSeconds .. subtractNanoseconds;
\* u is the unit of the argument.  case MINUTES has no break and runs on
\* into case SECONDS.
FinerCall(sub, u, t, amount) ==
    IF BigIsZero(amount) THEN Ok(t)
    ELSE LET n == IF BigGt(amount, in_day[u]) THEN BigRem(amount, in_day[u]) ELSE amount
             IntoSeconds(t2) ==
                 IF u = SECONDS THEN Priv(sub, SECONDS, t2, n)
                 ELSE IF BigLt(n, in_unit[SECONDS][u]) THEN Ok(t2)
                 ELSE Priv(sub, SECONDS, t2, BigRem(n, in_unit[SECONDS][u]))
         IN IF t.precision = MINUTES
            THEN IF BigLt(n, in_unit[MINUTES][u]) THEN Ok(t)
                 ELSE Then(Priv(sub, MINUTES, t, BigRem(n, in_unit[MINUTES][u])), IntoSeconds)
            ELSE IF t.precision = SECONDS THEN IntoSeconds(t)
            ELSE IF t.precision < u
                 THEN IF BigLt(n, in_unit[t.precision][u]) THEN Ok(t)
                      ELSE Priv(sub, t.precision, t, BigRem(n, in_unit[t.precision][u]))
            ELSE IF t.precision = u THEN Priv(sub, u, t, n)
            ELSE Priv(sub, t.precision, t, BigMul(n, in_unit[u][t.precision]))

addHours(t, n) == HoursCall(FALSE, t, n)
addMinutes(t, n) == MinutesCall(FALSE, t, n)
addSeconds(t, n) == FinerCall(FALSE, SECONDS, t, n)
addMilliseconds(t, n) == FinerCall(FALSE, MILLISECONDS, t, n)
addMicroseconds(t, n) == FinerCall(FALSE, MICROSECONDS, t, n)
addNanoseconds(t, n) == FinerCall(FALSE, NANOSECONDS, t, n)
subtractHours(t, n) == HoursCall(TRUE, t, n)
subtractMinutes(t, n) == MinutesCall(TRUE, t, n)
subtractSeconds(t, n) == FinerCall(TRUE, SECONDS, t, n)
subtractMilliseconds(t, n) == FinerCall(TRUE, MILLISECONDS, t, n)
subtractMicroseconds(t, n) == FinerCall(TRUE, MICROSECONDS, t, n)
subtractNanoseconds(t, n) == FinerCall(TRUE, NANOSECONDS, t, n)

\* the part of the value below one tick of unit coarse, in ticks of unit
\* fine: duration_cast<fine>(value) - duration_cast<fine>(duration_cast<coarse>(value))
Below(t, coarse, fine) ==
    BigSub(duration_cast(t.count, t.alt, fine),
           duration_cast(duration_cast(t.count, t.alt, coarse), coarse, fine))

\* Time::hours() .. Time::nanoseconds()
hours(t) == BigU8(duration_cast(t.count, t.alt, HOURS))
minutes(t) == BigU8(Below(t, HOURS, MINUTES))
seconds(t) == IF t.precision < SECONDS THEN 0 ELSE BigU8(Below(t, MINUTES, SECONDS))
milliseconds(t) ==
    IF t.precision < MILLISECONDS THEN 0 ELSE BigU16(Below(t, SECONDS, MILLISECONDS))
microseconds(t) ==
    IF t.precision < MICROSECONDS THEN 0 ELSE BigU16(Below(t, MILLISECONDS, MICROSECONDS))
nanoseconds(t) ==
    IF t.precision < NANOSECONDS THEN 0 ELSE BigU16(Below(t, MICROSECONDS, NANOSECONDS))

\* an object no constructor has initialised yet
NoTime == [alt |-> MINUTES, count |-> BigZero, precision |-> MINUTES, offset |-> UTC]

\* the count of minutes stored without the range tests of the two fields
MinutesUnchecked(h, m) ==
    Ok([NoTime EXCEPT !.offset = UTC, !.precision = MINUTES, !.alt = MINUTES,
                      !.count = BigOf(h * 60 + m)])

\* Time::Time(uint8_t hours, uint8_t minutes)
TimeHM(h, m) ==
    LET t == [NoTime EXCEPT !.offset = UTC, !.precision = MINUTES]
    IN IF h > 23 \/ m > 59 THEN Throw(t, "range_error")
       ELSE Ok([t EXCEPT !.alt = MINUTES, !.count = BigOf(h * 60 + m)])

\* the body shared by the delegating constructors: the range check of the
\* new field, std::get of the alternative the delegate stored, and the
\* conversion to the finer unit
TimeExtend(r, field, limit, p) ==
    Then(r, LAMBDA t :
        IF field > limit THEN Throw(t, "range_error")
        ELSE IF t.alt # p - 1 THEN Throw(t, "bad_variant_access")
        ELSE Ok([t EXCEPT !.alt = p,
                          !.count = BigAdd(duration_cast(t.count, p - 1, p), BigOf(field)),
                          !.precision = p]))

\* Time::Time(hours, minutes, seconds) .. Time::Time(hours, .., nanoseconds)
TimeHMS(h, m, sec) == TimeExtend(TimeHM(h, m), sec, 59, SECONDS)
TimeHMSm(h, m, sec, ms) == TimeExtend(TimeHMS(h, m, sec), ms, 999, MILLISECONDS)
TimeHMSmu(h, m, sec, ms, us) == TimeExtend(TimeHMSm(h, m, sec, ms), us, 999, MICROSECONDS)
TimeHMSmun(h, m, sec, ms, us, ns) ==
    TimeExtend(TimeHMSmu(h, m, sec, ms, us), ns, 999, NANOSECONDS)

\* the constructor selected by the number of fields given (2 .. 6)
TimeOfFields(f) ==
    CASE Len(f) = 2 -> TimeHM(f[1], f[2])
      [] Len(f) = 3 -> TimeHMS(f[1], f[2], f[3])
      [] Len(f) = 4 -> TimeHMSm(f[1], f[2], f[3], f[4])
      [] Len(f) = 5 -> TimeHMSmu(f[1], f[2], f[3], f[4], f[5])
      [] Len(f) = 6 -> TimeHMSmun(f[1], f[2], f[3], f[4], f[5], f[6])

\* Time::Time(Precision) and Time::Time(TimeZone, Precision): tod is the
\* time of day of the clock reading in nanoseconds (the tick of
\* system_clock).  The reading is shifted by the offset and loses its whole
\* days; a reading after 1970-01-02 stays positive, so what is left is the
\* shifted time of day modulo one day.
TimeNowValue(tod, p_time_zone, p_precision) ==
    LET shifted == BigAdd(tod, BigMul(NsIn(HOURS), BigOf(p_time_zone + 24)))
        time_point == BigRem(shifted, in_day[NANOSECONDS])
    IN [alt |-> p_precision,
        count |-> duration_cast(time_point, NANOSECONDS, p_precision),
        precision |-> p_precision, offset |-> p_time_zone]

\* std::to_string on an int
to_string_int(n) == IF n < 0 THEN <<"-">> \o to_string(0 - n) ELSE to_string(n)

\* TimeZone::WEST_10 and TimeZone::EAST_10
WEST_10 == UTC - 10
EAST_10 == UTC + 10

\* the zero filling of the default formatter: one '0' below 10 for the
\* two-digit fields, one '0' below 100 and one more below 10 for the others
TwoDigits(n) == (IF n < 10 THEN <<"0">> ELSE <<>>) \o to_string(n)
ThreeDigits(n) ==
    (IF n < 100 THEN <<"0">> ELSE <<>>) \o (IF n < 10 THEN <<"0">> ELSE <<>>) \o to_string(n)

\* the offset as the default formatter writes it
OffsetText(offset) ==
    (IF offset >= UTC
     THEN <<"+">> \o (IF offset < EAST_10 THEN <<"0">> ELSE <<>>)
     ELSE <<>>)
      \o to_string_int(offset)
      \o (IF offset > WEST_10 /\ offset < UTC THEN <<"0">> ELSE <<>>)

\* g_default_global_formatter of time.cpp
TimeDefaultFormat(p_time) ==
    TwoDigits(hours(p_time)) \o <<":">> \o TwoDigits(minutes(p_time))
      \o (IF p_time.precision >= SECONDS
          THEN <<":">> \o TwoDigits(seconds(p_time)) ELSE <<>>)
      \o (IF p_time.precision >= MILLISECONDS
          THEN <<".">> \o ThreeDigits(milliseconds(p_time)) ELSE <<>>)
      \o (IF p_time.precision >= MICROSECONDS
          THEN <<".">> \o ThreeDigits(microseconds(p_time)) ELSE <<>>)
      \o (IF p_time.precision = NANOSECONDS
          THEN <<".">> \o ThreeDigits(nanoseconds(p_time)) ELSE <<>>)
      \o OffsetText(p_time.offset)

\* checkTimeFormat of time.cpp; i is the 0-based index of the loop
checkTimeFormat(time) ==
    /\ Len(time) >= 5
    /\ Len(time) <= 20
    /\ \A i \in 0..(Len(time) - 1) :
           LET ch == time[i + 1]
           IN /\ IsDigit(ch) \/ ch = ":" \/ ch = "."
              /\ i < 2 => IsDigit(ch)
              /\ i = 2 => ch = ":"
              /\ (i > 2 /\ i < 5) => IsDigit(ch)
              /\ i = 5 => ch = ":"
              /\ (i > 5 /\ i < 8) => IsDigit(ch)
              /\ i = 8 => ch = "."
              /\ (i > 8 /\ i < 12) => IsDigit(ch)
              /\ i = 12 => ch = "."
              /\ (i > 12 /\ i < 16) => IsDigit(ch)
              /\ i = 16 => ch = "."
              /\ (i > 16 /\ i < 20) => IsDigit(ch)

\* std::string::find_first_of: the 0-based position of the first character
\* that is one of chars; found = FALSE stands for std::string::npos
find_first_of(s, chars) ==
    IF \E i \in 1..Len(s) : s[i] \in chars
    THEN [found |-> TRUE,
          pos |-> (CHOOSE i \in 1..Len(s) :
                      s[i] \in chars /\ \A j \in 1..(i - 1) : s[j] \notin chars) - 1]
    ELSE [found |-> FALSE, pos |-> 0]

\* Time::Time(const std::string&).  size() - 3 is unsigned: below three
\* characters it is larger than any position.  std::stoi throws
\* std::invalid_argument when the three characters hold no number; what it
\* returns (-99 .. 99) is cast to TimeZone unchecked.
TimeFromString(time) ==
    LET offset_pos == find_first_of(time, {"-", "+"})
        has_offset == offset_pos.found /\ Len(time) >= 3 /\ offset_pos.pos = Len(time) - 3
        offset == IF has_offset
                  THEN stoi(substr(time, offset_pos.pos, Len(time)))
                  ELSE [ok |-> TRUE, val |-> UTC]
        l_time == IF has_offset THEN substr(time, 0, offset_pos.pos) ELSE time
        size == Len(l_time)
        Field(pos, len) == stoi(substr(l_time, pos, len)).val
        fields == <<Field(0, 2), Field(3, 2)>>
                    \o (IF size >= 8 THEN <<Field(6, 2)>> ELSE <<>>)
                    \o (IF size >= 12 THEN <<Field(9, 3)>> ELSE <<>>)
                    \o (IF size >= 16 THEN <<Field(13, 3)>> ELSE <<>>)
                    \o (IF size >= 20 THEN <<Field(17, 3)>> ELSE <<>>)
    IN IF ~offset.ok THEN Throw(NoTime, "invalid_argument")
       ELSE IF ~checkTimeFormat(l_time) THEN Throw(NoTime, "invalid_argument")
       ELSE IF size \notin {5, 8, 12, 16, 20} THEN Throw(NoTime, "invalid_argument")
       ELSE LET r == TimeOfFields(fields)
            IN IF r.err # "none" THEN r ELSE Ok([r.t EXCEPT !.offset = offset.val])

\* operator== / operator< of the std::variant: the index first, then the value
VariantEq(a, b) == a.alt = b.alt /\ a.count = b.count
VariantLt(a, b) == a.alt < b.alt \/ (a.alt = b.alt /\ BigLt(a.count, b.count))

\* Time::operator== / Time::operator< and the free operators of time.cpp
TimeEq(l, r) == IF l.precision # r.precision THEN FALSE ELSE VariantEq(l, r)
TimeLt(l, r) == IF l.precision # r.precision THEN FALSE ELSE VariantLt(l, r)
TimeNe(l, r) == ~TimeEq(l, r)
TimeLe(l, r) == TimeLt(l, r) \/ TimeEq(l, r)
TimeGt(l, r) == ~TimeLe(l, r)
TimeGe(l, r) == TimeGt(l, r) \/ TimeEq(l, r)

\* std::max(l.precision(), r.precision())
MaxPrecision(l, r) == IF l.precision < r.precision THEN r.precision ELSE l.precision

\* the switch of operator+ / operator-: entered at the result's precision,
\* every case runs on into the next.  res is what the cases before have
\* done; an exception ends the cascade.
AfterMinutes(sub, res, r) ==
    IF res.err # "none" THEN res ELSE HoursCall(sub, res.t, BigOf(hours(r)))

CaseMinutes(sub, res, r) ==
    IF res.err # "none" THEN res
    ELSE AfterMinutes(sub, MinutesCall(sub, res.t, BigOf(minutes(r))), r)

CaseSeconds(sub, res, r) ==
    IF res.err # "none" THEN res
    ELSE CaseMinutes(sub, FinerCall(sub, SECONDS, res.t, BigOf(seconds(r))), r)

CaseMilliseconds(sub, res, r) ==
    IF res.err # "none" THEN res
    ELSE CaseSeconds(sub, FinerCall(sub, MILLISECONDS, res.t, BigOf(milliseconds(r))), r)

CaseMicroseconds(sub, res, r) ==
    IF res.err # "none" THEN res
    ELSE CaseMilliseconds(sub, FinerCall(sub, MICROSECONDS, res.t, BigOf(microseconds(r))), r)

CaseNanoseconds(sub, res, r) ==
    IF res.err # "none" THEN res
    ELSE CaseMicroseconds(sub, FinerCall(sub, NANOSECONDS, res.t, BigOf(nanoseconds(r))), r)

CascadeFrom(sub, p, time, r) ==
    CASE p = NANOSECONDS -> CaseNanoseconds(sub, Ok(time), r)
      [] p = MICROSECONDS -> CaseMicroseconds(sub, Ok(time), r)
      [] p = MILLISECONDS -> CaseMilliseconds(sub, Ok(time), r)
      [] p = SECONDS -> CaseSeconds(sub, Ok(time), r)
      [] p = MINUTES -> CaseMinutes(sub, Ok(time), r)

\* operator+(const Time& l, const Time& r) / operator-(const Time& l, const Time& r)
TimePlus(l, r) ==
    LET time == [l EXCEPT !.precision = MaxPrecision(l, r)]
    IN CascadeFrom(FALSE, time.precision, time, r)

TimeMinus(l, r) ==
    LET time == [l EXCEPT !.precision = MaxPrecision(l, r)]
    IN CascadeFrom(TRUE, time.precision, time, r)

----------------------------------------------------------------------------
(* date_time.cpp: DateTime, a record [phase, m_date, m_time] of a Date     *)
(* count and a Time.                                                       *)

\* DateTime::DateTime(const std::string&): the outcome as a record
\* [err, m_date, m_time].  The Date parser runs first; what it throws, and
\* what the Time parser throws, leaves the constructor.
DateTimeOfParts(found, l_date, l_time) ==
    IF ~found
    THEN [err |-> "runtime_error", m_date |-> 0, m_time |-> NoTime]
    ELSE IF l_date.err # "none"
    THEN [err |-> l_date.err, m_date |-> 0, m_time |-> NoTime]
    ELSE IF l_time.err # "none"
    THEN [err |-> l_time.err, m_date |-> l_date.days, m_time |-> NoTime]
    ELSE [err |-> "none", m_date |-> l_date.days, m_time |-> l_time.t]

DateTimeSplitAt(date, delimiter_pos) ==
    DateTimeOfParts(delimiter_pos.found,
                    DateFromIso(substr(date, 0, delimiter_pos.pos)),
                    TimeFromString(substr(date, delimiter_pos.pos + 1, Len(date))))

DateTimeFromString(date) == DateTimeSplitAt(date, find_first_of(date, {"T"}))

\* DateTime::operator==
DateTimeEq(l, r) == DateEq(l.m_date, r.m_date) /\ TimeEq(l.m_time, r.m_time)

\* DateTime::operator<
DateTimeLt(l, r) ==
    IF DateGt(l.m_date, r.m_date) THEN FALSE
    ELSE IF DateEq(l.m_date, r.m_date) /\ TimeGe(l.m_time, r.m_time) THEN FALSE
    ELSE TRUE

\* the free operators of date_time.cpp
DateTimeNe(l, r) == ~DateTimeEq(l, r)
DateTimeLe(l, r) == DateTimeLt(l, r) \/ DateTimeEq(l, r)
DateTimeGt(l, r) == ~DateTimeLe(l, r)
DateTimeGe(l, r) == DateTimeGt(l, r) \/ DateTimeEq(l, r)

----------------------------------------------------------------------------
(* date.cpp / time.cpp / date_time.cpp: the formatters.                    *)
(*                                                                         *)
(* A std::function slot is "empty", "default" (the                         *)
(* g_default_global_formatter of the type's translation unit) or the name  *)
(* of a formatter supplied by a caller.  Each type has one static slot     *)
(* m_formatter_global; each object has its own m_formatter_local, and a    *)
(* DateTime carries the local slots of its m_date and m_time members.      *)

Types == {"Date", "Time", "DateTime"}
Instances == {1, 2}
Objects == Types \X Instances
CustomFormatters == {"f", "g"}
FormatterArguments == CustomFormatters \cup {"empty"}

\* the values held by the objects the formatter calls are made on
ObjectValues ==
    [o \in Objects |->
        IF o[1] = "Date" THEN DateCtorDays(29 - o[2], 2, 2024)
        ELSE IF o[1] = "Time" THEN TimeHMS(10 + o[2], 20, 30).t
        ELSE [m_date |-> DateCtorDays(o[2], 1, 2024), m_time |-> TimeHM(22 + o[2], 5).t]]

\* what the g_default_global_formatter of Date and of Time print for a
\* value; for a DateTime, what they print for its two members
DefaultTextOf(type, value) ==
    [date |-> IF type = "Time" THEN <<>>
              ELSE DateDefaultFormat(IF type = "Date" THEN value ELSE value.m_date),
     time |-> IF type = "Date" THEN <<>>
              ELSE TimeDefaultFormat(IF type = "Time" THEN value ELSE value.m_time)]

DefaultTexts == [o \in Objects |-> DefaultTextOf(o[1], ObjectValues[o])]

\* what a caller-supplied formatter returns: its own mark, then the fields
\* of the value it was given
CallFormatter(formatter, text) ==
    <<formatter, "(">> \o text.date \o <<" ">> \o text.time \o <<")">>

\* a toString that never looks at the object's own slot
toStringGlobalOnly(type, text, m_formatter_global, m_formatter_local) ==
    LET global == IF m_formatter_global = "empty" THEN "default" ELSE m_formatter_global
    IN [global |-> global,
        text |-> IF global = "default"
                 THEN (IF type = "Date" THEN text.date ELSE text.time)
                 ELSE CallFormatter(global, text)]

\* toString of Date and of Time on a value whose default text is given: the
\* slot the static member holds after the call and the text returned
toStringOf(type, text, m_formatter_global, m_formatter_local) ==
    LET global == IF m_formatter_global = "empty" THEN "default" ELSE m_formatter_global
        chosen == IF m_formatter_local # "empty" THEN m_formatter_local ELSE global
    IN [global |-> global,
        text |-> IF chosen = "default"
                 THEN (IF type = "Date" THEN text.date ELSE text.time)
                 ELSE CallFormatter(chosen, text)]

\* DateTime::toString: the three static slots after the call and the text
\* returned; the built-in formatter calls toString on both members
DateTimeToString(text, globals, m_formatter_local, date_local, time_local) ==
    LET global == IF globals["DateTime"] = "empty" THEN "default" ELSE globals["DateTime"]
        chosen == IF m_formatter_local # "empty" THEN m_formatter_local ELSE global
        l_date == toStringOf("Date", [text EXCEPT !.time = <<>>], globals["Date"], date_local)
        l_time == toStringOf("Time", [text EXCEPT !.date = <<>>], globals["Time"], time_local)
    IN IF chosen = "default"
       THEN [globals |-> [t \in Types |-> IF t = "Date" THEN l_date.global
                                          ELSE IF t = "Time" THEN l_time.global
                                          ELSE global],
             text |-> l_date.text \o <<"T">> \o l_time.text]
       ELSE [globals |-> [globals EXCEPT !["DateTime"] = global],
             text |-> CallFormatter(chosen, text)]

\* toString of any of the three types on object o in formatter state f
toString(f, o) ==
    IF o[1] = "DateTime"
    THEN DateTimeToString(f.default_text[o], f.global, f.local[o], f.date_local[o[2]],
                          f.time_local[o[2]])
    ELSE LET r == toStringOf(o[1], f.default_text[o], f.global[o[1]], f.local[o])
         IN [globals |-> [f.global EXCEPT ![o[1]] = r.global], text |-> r.text]

\* no formatter call has been made: every slot is an empty std::function
NoFormatCall == [op |-> "none", o |-> <<"none", 0>>, text |-> <<>>,
                 before |-> [o \in Objects |-> <<>>]]

\* the threads that call the formatter functions, and one before any call
Callers == {1, 2}
IdleCaller == [pc |-> "idle", o |-> <<"none", 0>>, after |-> "never", text |-> <<>>,
               finished |-> FALSE]

FormatInit ==
    [value |-> ObjectValues,
     default_text |-> DefaultTexts,
     global |-> [t \in Types |-> "empty"],
     local |-> [o \in Objects |-> "empty"],
     date_local |-> [i \in Instances |-> "empty"],
     time_local |-> [i \in Instances |-> "empty"],
     installed |-> [t \in Types |-> "never"],
     last |-> NoFormatCall,
     threads |-> [t \in Callers |-> IdleCaller],
     n |-> 0]

----------------------------------------------------------------------------
(* include/log.hpp: template class Log, and src/log.cpp: the singleton Log *)
(*                                                                         *)
(* A MessageType is its index 0..5 (Trace, Debug, Error, Warning, Info,    *)
(* Fatal).  An element of m_outputs is "monostate", a stream ("cout",      *)
(* "cerr"), a path ("file", or "nofile" for one that cannot be opened) or  *)
(* "callback".  A message is a record [index, type, layout]: the value of  *)
(* message_index in its prefix, the message type and the formatter that    *)
(* produced its text.                                                      *)

MessageTypes == 0..5
Threads == {1, 2}
LogClasses == {"template", "singleton"}
Streams == {"cout", "cerr"}
Sinks == Streams \cup {"file", "callback"}
OutputArguments == {"nullptr", "cout", "file", "nofile", "callback"}

IdleThread == [pc |-> "idle", type |-> 0, msg |-> <<>>, unlocked |-> {}, err |-> "none"]

NoLogCall == [op |-> "none", type |-> 0, err |-> "none",
              sinks |-> [s \in Sinks |-> <<>>], m_outputs |-> <<>>]

\* no Log object exists yet; message_index is a function-local static of write
LogInit ==
    [class |-> "none",
     m_outputs |-> <<>>,
     m_formatters |-> <<>>,
     message_index |-> 0,
     m_mutex |-> 0,
     sinks |-> [s \in Sinks |-> <<>>],
     threads |-> [t \in Threads |-> IdleThread],
     last |-> NoLogCall,
     n |-> 0]

\* Log::Log() of either class
LogCtor(class) ==
    IF class = "template"
    THEN [m_outputs |-> [i \in 1..6 |-> "cout"], m_formatters |-> <<>>]
    ELSE [m_outputs |-> <<"cout", "cout", "cerr", "cout", "cout", "cerr">>,
          m_formatters |-> [i \in 1..6 |-> "default"]]

\* the variant alternative stored for an argument of setOutput / setGlobalOutput
OutputOf(output) == IF output = "nullptr" THEN "monostate" ELSE output

\* std::vector::at
InRange(vector, index) == index + 1 <= Len(vector)

\* the text of a message: LogEvent::toString with the formatter of its type
\* (the default layout when the formatter is empty), after the prefix
\* processID-message_index of the template; the singleton has no prefix
Message(l, type) ==
    [index |-> IF l.class = "template" THEN l.message_index ELSE 0 - 1,
     type |-> type,
     layout |-> IF l.m_formatters[type + 1] = "empty" THEN "default"
                ELSE l.m_formatters[type + 1]]

\* what the singleton's write prints on std::cerr when it catches the failure
FailureReport(type) == [index |-> 0 - 1, type |-> type, layout |-> "failure"]

\* Log::write, run by one caller from start to end: the logger after the
\* call, with the exception that left the call in last.err
write(l, type) ==
    LET output == l.m_outputs[type + 1]
        msg == Message(l, type)
        sink == IF output = "nofile" THEN "file" ELSE output
        called == [l EXCEPT !.last = [op |-> "write", type |-> type, err |-> "none",
                                      sinks |-> l.sinks, m_outputs |-> l.m_outputs]]
        counted == IF l.class = "template"
                   THEN [called EXCEPT !.message_index = @ + 1]
                   ELSE called
    IN IF l.class = "singleton" /\ output = "monostate" THEN called
       ELSE IF ~InRange(l.m_formatters, type)
            THEN [called EXCEPT !.last.err = "out_of_range"]
       ELSE IF output = "monostate" THEN counted
       ELSE IF output = "nofile"
            THEN (IF l.class = "template"
                  THEN [called EXCEPT !.last.err = "failure"]
                  ELSE [called EXCEPT !.sinks["cerr"] = Append(@, FailureReport(type))])
       ELSE [counted EXCEPT !.sinks[sink] = Append(@, msg)]

----------------------------------------------------------------------------
(* The Date object as a state machine.                                     *)

\* longest sequence of add / subtract calls explored on one object
MaxDateOps == 2

SampleYears == {1899, 1900, 1901, 1904, 2000, 2023, 2024, 2101}
SampleMonths == 0..13
SampleDays == {0, 1, 15, 28, 29, 30, 31, 32}
SampleCounts == {1, 2}
\* arguments of addDays / subtractDays
SampleDayCounts == {0, 1, 2, 366}

\* seconds since 1970-01-01T00:00:00Z read from the system clock
SampleClockSeconds == {0, 951868800, 1709247599, 1735689599}
TimeZones == -12..12

Pad2(n) == (IF n < 10 THEN <<"0">> ELSE <<>>) \o to_string(n)
Pad3(n) == (IF n < 100 THEN <<"0">> ELSE <<>>) \o Pad2(n)
Iso10(d, m, y) == to_string(y) \o <<"-">> \o Pad2(m) \o <<"-">> \o Pad2(d)
Iso8(d, m, y) == to_string(y) \o Pad2(m) \o Pad2(d)

IsoTriples ==
    {<<1, 1, 1900>>, <<31, 12, 1900>>, <<28, 2, 2023>>, <<29, 2, 2023>>,
     <<29, 2, 2024>>, <<31, 12, 2024>>, <<15, 6, 2000>>, <<31, 4, 2024>>,
     <<1, 13, 2024>>, <<1, 1, 1899>>}

SampleIsoStrings ==
    {Iso10(t[1], t[2], t[3]) : t \in IsoTriples}
      \cup {Iso8(t[1], t[2], t[3]) : t \in IsoTriples}
      \cup {<<"2", "0", "2", "4", "/", "0", "2", "/", "2", "9">>,
            <<"2", "0", "2", "4", "-", "2", "-", "2", "9">>,
            <<"2", "0", "2", "4", "-", "0", "2", "0", "2", "9">>,
            <<"2", "0", "2", "4", "0", "-", "2", "-", "2", "9">>,
            <<"-", "-", "-", "-", "-", "-", "-", "-">>,
            <<>>}

NoDateInput == [via |-> "none", day |-> 0, month |-> 0, year |-> 0, iso |-> <<>>]

\* no constructor has run yet on any object
NoDateTime == [phase |-> "new", m_date |-> 0, m_time |-> NoTime]
NoTimeInput == [via |-> "none", fields |-> <<>>]

Init ==
    /\ m_days_since_1900 = 0
    /\ date_hist = [phase |-> "new", err |-> "none", in |-> NoDateInput, calls |-> <<>>]
    /\ m_time_since_day_start = [alt |-> NoTime.alt, count |-> NoTime.count]
    /\ m_precision = NoTime.precision
    /\ m_offset = NoTime.offset
    /\ time_hist = [phase |-> "new", err |-> "none", in |-> NoTimeInput, calls |-> <<>>]
    /\ dt_a = NoDateTime
    /\ dt_b = NoDateTime
    /\ dt_result = [phase |-> "new"]
    /\ fmt = FormatInit
    /\ logger = LogInit

\* Date::Date(uint8_t day, uint8_t month, uint16_t year)
DateYMD(p_day, p_month, p_year) ==
    /\ date_hist.phase = "new"
    /\ LET in == [via |-> "ymd", day |-> p_day, month |-> p_month,
                  year |-> p_year, iso |-> <<>>]
       IN IF DateCtorThrows(p_day, p_month, p_year)
          THEN /\ date_hist' = [date_hist EXCEPT !.phase = "threw",
                                                 !.err = "range_error", !.in = in]
               /\ UNCHANGED m_days_since_1900
               /\ UNCHANGED <<time_vars, date_time_vars, fmt, logger>>
          ELSE /\ date_hist' = [date_hist EXCEPT !.phase = "ok", !.in = in]
               /\ m_days_since_1900' = DateCtorDays(p_day, p_month, p_year)
               /\ UNCHANGED <<time_vars, date_time_vars, fmt, logger>>

\* Date::Date(const std::string& iso_date)
DateIso(iso_date) ==
    /\ date_hist.phase = "new"
    /\ LET r == DateFromIso(iso_date)
           in == [via |-> "iso", day |-> 0, month |-> 0, year |-> 0, iso |-> iso_date]
       IN IF r.err # "none"
          THEN /\ date_hist' = [date_hist EXCEPT !.phase = "threw", !.err = r.err, !.in = in]
               /\ UNCHANGED m_days_since_1900
               /\ UNCHANGED <<time_vars, date_time_vars, fmt, logger>>
          ELSE /\ date_hist' = [date_hist EXCEPT !.phase = "ok", !.in = in]
               /\ m_days_since_1900' = r.days
               /\ UNCHANGED <<time_vars, date_time_vars, fmt, logger>>

\* the values of a uint16_t year
MaxYear == 2 ^ 16 - 1

\* the static Date::isLeapYear called for any year, no object being made
DateIsLeapYear ==
    /\ date_hist.phase = "new"
    /\ \E p_year \in 0..MaxYear :
           date_hist' = [phase |-> "static", err |-> "none", calls |-> <<>>,
                         in |-> [via |-> "isLeapYear", day |-> 0, month |-> 0,
                                 year |-> p_year, iso |-> <<>>],
                         leap |-> isLeapYear(p_year)]
    /\ UNCHANGED m_days_since_1900
    /\ UNCHANGED <<time_vars, date_time_vars, fmt, logger>>

\* the count Date::Date() and Date::Date(TimeZone) compute from the clock
DateOfClock(clock_seconds, p_time_zone) ==
    g_days_since_1900_to_1970
        + TruncDiv(clock_seconds + p_time_zone * g_seconds_in_hour, g_seconds_in_day) + 1

\* Date::Date() and Date::Date(TimeZone): the clock read is an input
DateNow(clock_seconds, p_time_zone) ==
    /\ date_hist.phase = "new"
    /\ date_hist' = [date_hist EXCEPT !.phase = "ok",
                        !.in = [via |-> "now", day |-> 0, month |-> 0, year |-> 0, iso |-> <<>>]]
    /\ m_days_since_1900' = DateOfClock(clock_seconds, p_time_zone)
    /\ UNCHANGED <<time_vars, date_time_vars, fmt, logger>>

\* a member call op(n) on a constructed Date taking the count to c2
DateCall(op, n, c2) ==
    /\ date_hist.phase = "ok"
    /\ Len(date_hist.calls) < MaxDateOps
    /\ date_hist' = [date_hist EXCEPT
                        !.calls = Append(@, [op |-> op, n |-> n, pre |-> m_days_since_1900])]
    /\ m_days_since_1900' = c2
    /\ UNCHANGED <<time_vars, date_time_vars, fmt, logger>>

DateAddDays(n) == DateCall("addDays", n, addDays(m_days_since_1900, n))
DateAddMonths(n) == DateCall("addMonths", n, addMonths(m_days_since_1900, n))
DateAddYears(n) == DateCall("addYears", n, addYears(m_days_since_1900, n))
DateSubtractDays(n) == DateCall("subtractDays", n, subtractDays(m_days_since_1900, n))
DateSubtractMonths(n) == DateCall("subtractMonths", n, subtractMonths(m_days_since_1900, n))
DateSubtractYears(n) == DateCall("subtractYears", n, subtractYears(m_days_since_1900, n))

DateNext ==
    \/ \E d \in SampleDays, m \in SampleMonths, y \in SampleYears : DateYMD(d, m, y)
    \/ \E s \in SampleIsoStrings : DateIso(s)
    \/ DateIsLeapYear
    \/ \E cs \in SampleClockSeconds, tz \in {-12, 0, 12} : DateNow(cs, tz)
    \/ \E n \in SampleDayCounts : DateAddDays(n)
    \/ \E n \in SampleCounts : DateAddMonths(n)
    \/ \E n \in SampleCounts : DateAddYears(n)
    \/ \E n \in SampleDayCounts : DateSubtractDays(n)
    \/ \E n \in SampleCounts : DateSubtractMonths(n)
    \/ \E n \in SampleCounts : DateSubtractYears(n)

SpecDate == Init /\ [][DateNext]_vars

----------------------------------------------------------------------------
(* The Time object as a state machine.                                     *)

\* longest sequence of member calls explored on one Time
MaxTimeOps == 2

\* constructor arguments: in range and out of range, every precision
SampleTimeFields ==
    {<<0, 0>>, <<23, 59>>, <<24, 0>>, <<12, 60>>,
     <<0, 0, 0>>, <<23, 59, 59>>, <<12, 30, 60>>,
     <<10, 15, 30, 500>>, <<23, 59, 59, 999>>, <<0, 0, 0, 1000>>,
     <<1, 2, 3, 4, 5>>, <<23, 59, 59, 999, 999>>,
     <<0, 0, 0, 0, 0, 0>>, <<23, 59, 59, 999, 999, 999>>, <<1, 2, 3, 4, 5, 1000>>,
     <<24, 0, 0>>, <<1, 2, 3, 4, 1000>>}

\* arguments of add* / subtract*
SampleAmounts ==
    {BigOf(0), BigOf(1), BigOf(60), BigOf(1500), [hi |-> 86400000, lo |-> 1]}

\* right operands of += / -=
SampleOperands ==
    {TimeOfFields(f).t :
        f \in {<<0, 1>>, <<0, 0, 0>>, <<0, 0, 1>>, <<1, 0, 0>>, <<0, 0, 0, 0, 0, 1>>}}

\* time of day read from the clock, in nanoseconds
SampleClockNanos == {[hi |-> 45296789, lo |-> 123456]}

Precisions == MINUTES..NANOSECONDS

\* the Time object held in the three member variables
ThisTime ==
    [alt |-> m_time_since_day_start.alt, count |-> m_time_since_day_start.count,
     precision |-> m_precision, offset |-> m_offset]

TimeStore(t) ==
    /\ m_time_since_day_start' = [alt |-> t.alt, count |-> t.count]
    /\ m_precision' = t.precision
    /\ m_offset' = t.offset

\* Time::Time(uint8_t hours, uint8_t minutes) .. Time::Time(hours, .., nanoseconds)
TimeFields(f) ==
    /\ time_hist.phase = "new"
    /\ LET r == TimeOfFields(f)
           in == [via |-> "fields", fields |-> f]
       IN IF r.err # "none"
          THEN /\ time_hist' = [time_hist EXCEPT !.phase = "threw", !.err = r.err, !.in = in]
               /\ UNCHANGED <<m_time_since_day_start, m_precision, m_offset>>
          ELSE /\ time_hist' = [time_hist EXCEPT !.phase = "ok", !.in = in]
               /\ TimeStore(r.t)
    /\ UNCHANGED <<date_vars, date_time_vars, fmt, logger>>

\* Time::Time(Precision) and Time::Time(TimeZone, Precision): the clock read
\* is an input
TimeNow(tod, p_time_zone, p_precision) ==
    /\ time_hist.phase = "new"
    /\ time_hist' = [time_hist EXCEPT !.phase = "ok", !.in = [via |-> "now", fields |-> <<>>]]
    /\ TimeStore(TimeNowValue(tod, p_time_zone, p_precision))
    /\ UNCHANGED <<date_vars, date_time_vars, fmt, logger>>

\* a member call op(n) on a constructed Time; r is what the call did: the
\* object as it left it and the exception that left it, if any
TimeCall(op, n, r) ==
    /\ time_hist.phase = "ok"
    /\ Len(time_hist.calls) < MaxTimeOps
    /\ time_hist' = [time_hist EXCEPT
                        !.calls = Append(@, [op |-> op, n |-> n, pre |-> ThisTime,
                                             err |-> r.err])]
    /\ TimeStore(r.t)
    /\ UNCHANGED <<date_vars, date_time_vars, fmt, logger>>

TimeAddHours(n) == TimeCall("addHours", n, addHours(ThisTime, n))
TimeAddMinutes(n) == TimeCall("addMinutes", n, addMinutes(ThisTime, n))
TimeAddSeconds(n) == TimeCall("addSeconds", n, addSeconds(ThisTime, n))
TimeAddMilliseconds(n) == TimeCall("addMilliseconds", n, addMilliseconds(ThisTime, n))
TimeAddMicroseconds(n) == TimeCall("addMicroseconds", n, addMicroseconds(ThisTime, n))
TimeAddNanoseconds(n) == TimeCall("addNanoseconds", n, addNanoseconds(ThisTime, n))
TimeSubtractHours(n) == TimeCall("subtractHours", n, subtractHours(ThisTime, n))
TimeSubtractMinutes(n) == TimeCall("subtractMinutes", n, subtractMinutes(ThisTime, n))
TimeSubtractSeconds(n) == TimeCall("subtractSeconds", n, subtractSeconds(ThisTime, n))
TimeSubtractMilliseconds(n) ==
    TimeCall("subtractMilliseconds", n, subtractMilliseconds(ThisTime, n))
TimeSubtractMicroseconds(n) ==
    TimeCall("subtractMicroseconds", n, subtractMicroseconds(ThisTime, n))
TimeSubtractNanoseconds(n) ==
    TimeCall("subtractNanoseconds", n, subtractNanoseconds(ThisTime, n))

\* Time::operator+= / Time::operator-=: *this = *this + other; when
\* operator+ throws, the assignment does not happen
Assigned(r) == IF r.err # "none" THEN [r EXCEPT !.t = ThisTime] ELSE r
TimePlusAssign(other) == TimeCall("+=", other, Assigned(TimePlus(ThisTime, other)))
TimeMinusAssign(other) == TimeCall("-=", other, Assigned(TimeMinus(ThisTime, other)))

TimeNext ==
    \/ \E f \in SampleTimeFields : TimeFields(f)
    \/ \E tod \in SampleClockNanos, tz \in {-12, UTC, 12}, p \in Precisions :
           TimeNow(tod, tz, p)
    \/ \E n \in SampleAmounts : TimeAddHours(n)
    \/ \E n \in SampleAmounts : TimeAddMinutes(n)
    \/ \E n \in SampleAmounts : TimeAddSeconds(n)
    \/ \E n \in SampleAmounts : TimeAddMilliseconds(n)
    \/ \E n \in SampleAmounts : TimeAddMicroseconds(n)
    \/ \E n \in SampleAmounts : TimeAddNanoseconds(n)
    \/ \E n \in SampleAmounts : TimeSubtractHours(n)
    \/ \E n \in SampleAmounts : TimeSubtractMinutes(n)
    \/ \E n \in SampleAmounts : TimeSubtractSeconds(n)
    \/ \E n \in SampleAmounts : TimeSubtractMilliseconds(n)
    \/ \E n \in SampleAmounts : TimeSubtractMicroseconds(n)
    \/ \E n \in SampleAmounts : TimeSubtractNanoseconds(n)
    \/ \E other \in SampleOperands : TimePlusAssign(other)
    \/ \E other \in SampleOperands : TimeMinusAssign(other)

SpecTime == Init /\ [][TimeNext]_vars

\* texts of the ten layouts with every field in range
WellFormedTimeStrings ==
    {<<"1", "0", ":", "2", "0">>,
     <<"1", "0", ":", "2", "0", ":", "3", "0">>,
     <<"1", "0", ":", "2", "0", ":", "3", "0", ".", "1", "2", "3">>,
     <<"1", "0", ":", "2", "0", ":", "3", "0", ".", "1", "2", "3", ".", "4", "5", "6">>,
     <<"1", "0", ":", "2", "0", ":", "3", "0", ".", "1", "2", "3", ".", "4", "5", "6", ".", "7", "8", "9">>,
     <<"0", "0", ":", "0", "0", "+", "0", "0">>,
     <<"1", "0", ":", "2", "0", "-", "0", "0">>,
     <<"1", "0", ":", "2", "0", ":", "3", "0", ".", "1", "2", "3", "+", "0", "2">>,
     <<"2", "3", ":", "5", "9", ":", "5", "9", ".", "9", "9", "9", ".", "9", "9", "9", ".", "9", "9", "9", "-", "1", "2">>,
     <<"1", "0", ":", "2", "0", "+", "1", "2">>,
     <<"1", "0", ":", "2", "0", "-", "0", "5">>}

\* texts of the layouts with a field out of range
OutOfRangeTimeStrings ==
    {<<"2", "5", ":", "0", "0">>,
     <<"1", "0", ":", "6", "0">>,
     <<"1", "0", ":", "2", "0", ":", "6", "0">>,
     <<"2", "4", ":", "0", "0", ":", "0", "0">>,
     <<"9", "9", ":", "9", "9", "+", "0", "1">>}

\* texts of the layouts whose offset is not one of the time zones
FarOffsetTimeStrings ==
    {<<"1", "0", ":", "2", "0", "+", "1", "3">>,
     <<"1", "0", ":", "2", "0", "+", "9", "9">>,
     <<"1", "0", ":", "2", "0", "-", "1", "3">>,
     <<"1", "0", ":", "2", "0", "-", "5", "0">>,
     <<"1", "0", ":", "2", "0", ":", "3", "0", "-", "9", "9">>}

\* texts that are in none of the layouts
MalformedTimeStrings ==
    {<<>>,
     <<"1", "0", "2", "0">>,
     <<"1", "0", ":", "2">>,
     <<"1", "0", ":", "2", "0", ":">>,
     <<"1", "0", ":", "2", "0", ":", "3">>,
     <<"1", "0", ":", "2", "0", ":", "3", "0", ".">>,
     <<"1", "0", ":", "2", "0", ":", "3", "0", ".", "1", "2">>,
     <<"1", "0", ":", "2", "0", ":", "3", "0", ":", "1", "2", "3">>,
     <<"1", "0", "-", "2", "0">>,
     <<"1", "0", ".", "2", "0">>,
     <<"+", "0", "5">>,
     <<"a", "b", ":", "c", "d">>,
     <<"1", "0", ":", "2", "0", ":", "3", "0", ".", "1", "2", "3", ".", "4", "5", "6", ".", "7", "8", "9", "0">>,
     <<"1", "0", ":", "2", "0", "+", "5">>,
     <<"1", "0", ":", "2", "0", "+", "a", "b">>,
     <<"1", "0", ":", "2", "0", "+", "1", "a">>,
     <<"1", "0", ":", "2", "0", "Z">>,
     <<"1", ":", "2", "0", ":", "3", "0">>,
     <<"1", "0", ":", "2", "0", ":", "3", "0", ".", "1", "2", "3", "4">>}

SampleTimeStrings ==
    WellFormedTimeStrings \cup OutOfRangeTimeStrings \cup FarOffsetTimeStrings
      \cup MalformedTimeStrings

\* Time::Time(const std::string&)
TimeString(time) ==
    /\ time_hist.phase = "new"
    /\ LET r == TimeFromString(time)
           in == [via |-> "string", fields |-> <<>>, text |-> time]
       IN IF r.err # "none"
          THEN /\ time_hist' = [time_hist EXCEPT !.phase = "threw", !.err = r.err, !.in = in]
               /\ UNCHANGED <<m_time_since_day_start, m_precision, m_offset>>
          ELSE /\ time_hist' = [time_hist EXCEPT !.phase = "ok", !.in = in]
               /\ TimeStore(r.t)
    /\ UNCHANGED <<date_vars, date_time_vars, fmt, logger>>

\* Time::setOffset
TimeSetOffset(offset) ==
    TimeCall("setOffset", offset, Ok([ThisTime EXCEPT !.offset = offset]))

\* Time::toString with no formatter set: the call record keeps the text
\* returned
TimeToString == TimeCall("toString", TimeDefaultFormat(ThisTime), Ok(ThisTime))

\* construction, setOffset and toString
TimeTextNext ==
    \/ \E f \in SampleTimeFields : TimeFields(f)
    \/ \E tod \in SampleClockNanos, tz \in TimeZones, p \in Precisions : TimeNow(tod, tz, p)
    \/ \E time \in SampleTimeStrings : TimeString(time)
    \/ \E offset \in TimeZones : TimeSetOffset(offset)
    \/ TimeToString

SpecTimeText == Init /\ [][TimeTextNext]_vars

----------------------------------------------------------------------------
(* Two DateTime objects and their comparison as a state machine.           *)

\* the Dates and Times handed to setDate / setTime
SampleDates ==
    {DateCtorDays(t[1], t[2], t[3]) :
        t \in {<<1, 1, 2024>>, <<2, 1, 2024>>, <<29, 2, 2024>>, <<31, 12, 2023>>}}

SampleTimes ==
    {TimeOfFields(f).t :
        f \in {<<0, 0>>, <<23, 59>>, <<0, 0, 0>>, <<23, 59, 59>>, <<12, 30, 15, 500>>}}

\* DateTime::DateTime(Precision) / DateTime::DateTime(TimeZone, Precision)
\* run on one of the two objects: m_date and m_time read the clock
DateTimeNowValue(clock_seconds, tod, p_time_zone, p_precision) ==
    [phase |-> "ok", m_date |-> DateOfClock(clock_seconds, p_time_zone),
     m_time |-> TimeNowValue(tod, p_time_zone, p_precision)]

DateTimeNowA(clock_seconds, tod, p_time_zone, p_precision) ==
    /\ dt_a.phase = "new"
    /\ dt_a' = DateTimeNowValue(clock_seconds, tod, p_time_zone, p_precision)
    /\ dt_result' = [phase |-> "new"]
    /\ UNCHANGED <<dt_b, date_vars, time_vars, fmt, logger>>

DateTimeNowB(clock_seconds, tod, p_time_zone, p_precision) ==
    /\ dt_b.phase = "new"
    /\ dt_b' = DateTimeNowValue(clock_seconds, tod, p_time_zone, p_precision)
    /\ dt_result' = [phase |-> "new"]
    /\ UNCHANGED <<dt_a, date_vars, time_vars, fmt, logger>>

\* texts handed to the string constructor of DateTime
SampleDateTimeStrings ==
    {<<"2", "0", "2", "4", "-", "0", "2", "-", "2", "9", "T", "1", "0", ":", "2", "0", ":", "3", "0">>,
     <<"2", "0", "2", "4", "0", "1", "0", "1", "T", "2", "3", ":", "5", "9", "+", "0", "2">>,
     <<"2", "0", "2", "4", "-", "0", "2", "-", "2", "9", " ", "1", "0", ":", "2", "0", ":", "3", "0">>,
     <<"2", "0", "2", "4", "-", "0", "2", "-", "2", "9">>,
     <<>>,
     <<"T">>,
     <<"2", "0", "2", "4", "-", "0", "2", "-", "2", "9", "T">>,
     <<"T", "1", "0", ":", "2", "0">>,
     <<"2", "0", "2", "4", "/", "0", "2", "/", "2", "9", "T", "1", "0", ":", "2", "0">>,
     <<"2", "0", "2", "4", "-", "0", "2", "-", "2", "9", "T", "2", "5", ":", "0", "0">>,
     <<"2", "0", "2", "3", "-", "0", "2", "-", "2", "9", "T", "1", "0", ":", "2", "0">>,
     <<"2", "0", "2", "4", "-", "0", "2", "-", "2", "9", "T", "1", "0", ":", "2", "0", "T">>,
     <<"1", "0", ":", "2", "0", ":", "3", "0">>}

\* DateTime::DateTime(const std::string&) run on one of the two objects
DateTimeStringOutcome(date, r) ==
    [phase |-> IF r.err = "none" THEN "ok" ELSE "threw", err |-> r.err, text |-> date,
     m_date |-> r.m_date, m_time |-> r.m_time]

DateTimeStringValue(date) == DateTimeStringOutcome(date, DateTimeFromString(date))

DateTimeStringA(date) ==
    /\ dt_a.phase = "new"
    /\ dt_a' = DateTimeStringValue(date)
    /\ dt_result' = [phase |-> "new"]
    /\ UNCHANGED <<dt_b, date_vars, time_vars, fmt, logger>>

DateTimeStringB(date) ==
    /\ dt_b.phase = "new"
    /\ dt_b' = DateTimeStringValue(date)
    /\ dt_result' = [phase |-> "new"]
    /\ UNCHANGED <<dt_a, date_vars, time_vars, fmt, logger>>

\* DateTime::setDate
SetDateA(p_date) ==
    /\ dt_a.phase = "ok"
    /\ dt_a' = [dt_a EXCEPT !.m_date = p_date]
    /\ dt_result' = [phase |-> "new"]
    /\ UNCHANGED <<dt_b, date_vars, time_vars, fmt, logger>>

SetDateB(p_date) ==
    /\ dt_b.phase = "ok"
    /\ dt_b' = [dt_b EXCEPT !.m_date = p_date]
    /\ dt_result' = [phase |-> "new"]
    /\ UNCHANGED <<dt_a, date_vars, time_vars, fmt, logger>>

\* DateTime::setTime
SetTimeA(p_time) ==
    /\ dt_a.phase = "ok"
    /\ dt_a' = [dt_a EXCEPT !.m_time = p_time]
    /\ dt_result' = [phase |-> "new"]
    /\ UNCHANGED <<dt_b, date_vars, time_vars, fmt, logger>>

SetTimeB(p_time) ==
    /\ dt_b.phase = "ok"
    /\ dt_b' = [dt_b EXCEPT !.m_time = p_time]
    /\ dt_result' = [phase |-> "new"]
    /\ UNCHANGED <<dt_a, date_vars, time_vars, fmt, logger>>

\* the six comparisons of dt_a with dt_b
DateTimeCompare ==
    /\ dt_a.phase = "ok"
    /\ dt_b.phase = "ok"
    /\ dt_result.phase = "new"
    /\ dt_result' = [phase |-> "done",
                     eq |-> DateTimeEq(dt_a, dt_b), ne |-> DateTimeNe(dt_a, dt_b),
                     lt |-> DateTimeLt(dt_a, dt_b), le |-> DateTimeLe(dt_a, dt_b),
                     gt |-> DateTimeGt(dt_a, dt_b), ge |-> DateTimeGe(dt_a, dt_b)]
    /\ UNCHANGED <<dt_a, dt_b, date_vars, time_vars, fmt, logger>>

\* the six comparisons of dt_a.time() with dt_b.time()
TimesCompare ==
    /\ dt_a.phase = "ok"
    /\ dt_b.phase = "ok"
    /\ dt_result.phase = "new"
    /\ dt_result' = [phase |-> "times",
                     eq |-> TimeEq(dt_a.m_time, dt_b.m_time),
                     ne |-> TimeNe(dt_a.m_time, dt_b.m_time),
                     lt |-> TimeLt(dt_a.m_time, dt_b.m_time),
                     le |-> TimeLe(dt_a.m_time, dt_b.m_time),
                     gt |-> TimeGt(dt_a.m_time, dt_b.m_time),
                     ge |-> TimeGe(dt_a.m_time, dt_b.m_time)]
    /\ UNCHANGED <<dt_a, dt_b, date_vars, time_vars, fmt, logger>>

DateTimeNext ==
    \/ \E cs \in SampleClockSeconds, tod \in SampleClockNanos, p \in {SECONDS} :
           DateTimeNowA(cs, tod, UTC, p)
    \/ \E cs \in SampleClockSeconds, tod \in SampleClockNanos, p \in {SECONDS} :
           DateTimeNowB(cs, tod, UTC, p)
    \/ \E date \in SampleDateTimeStrings : DateTimeStringA(date)
    \/ \E date \in SampleDateTimeStrings : DateTimeStringB(date)
    \/ \E d \in SampleDates : SetDateA(d)
    \/ \E d \in SampleDates : SetDateB(d)
    \/ \E t \in SampleTimes : SetTimeA(t)
    \/ \E t \in SampleTimes : SetTimeB(t)
    \/ DateTimeCompare
    \/ TimesCompare

SpecDateTime == Init /\ [][DateTimeNext]_vars

----------------------------------------------------------------------------
(* The formatter slots of the three types as a state machine: calls made   *)
(* one after another by a single caller.                                   *)

\* longest sequence of formatter calls explored
MaxFormatOps == 3

\* the text every object would print in formatter state f
TextOfAll(f) == [o \in Objects |-> toString(f, o).text]

FormatCall(op, o, text) ==
    [op |-> op, o |-> o, text |-> text, before |-> TextOfAll(fmt)]

\* Date / Time / DateTime ::setGlobalFormatter(Formatter&& p_formatter)
FormatSetGlobal ==
    /\ fmt.n < MaxFormatOps
    /\ \E type \in Types, p_formatter \in FormatterArguments :
           fmt' = [fmt EXCEPT !.global[type] = p_formatter,
                              !.installed[type] = p_formatter,
                              !.last = FormatCall("setGlobalFormatter", <<type, 0>>, <<>>),
                              !.n = @ + 1]
    /\ UNCHANGED <<date_vars, time_vars, date_time_vars, logger>>

\* Date / Time / DateTime ::setLocalFormatter(Formatter&& p_formatter)
FormatSetLocal ==
    /\ fmt.n < MaxFormatOps
    /\ \E o \in Objects, p_formatter \in FormatterArguments :
           fmt' = [fmt EXCEPT !.local[o] = p_formatter,
                              !.last = FormatCall("setLocalFormatter", o, <<>>),
                              !.n = @ + 1]
    /\ UNCHANGED <<date_vars, time_vars, date_time_vars, logger>>

\* DateTime::setDateLocalFormatter(date::Formatter&& p_formatter)
FormatSetDateLocal ==
    /\ fmt.n < MaxFormatOps
    /\ \E i \in Instances, p_formatter \in FormatterArguments :
           fmt' = [fmt EXCEPT !.date_local[i] = p_formatter,
                              !.last = FormatCall("setDateLocalFormatter",
                                                  <<"DateTime", i>>, <<>>),
                              !.n = @ + 1]
    /\ UNCHANGED <<date_vars, time_vars, date_time_vars, logger>>

\* DateTime::setTimeLocalFormatter(time::Formatter&& p_formatter)
FormatSetTimeLocal ==
    /\ fmt.n < MaxFormatOps
    /\ \E i \in Instances, p_formatter \in FormatterArguments :
           fmt' = [fmt EXCEPT !.time_local[i] = p_formatter,
                              !.last = FormatCall("setTimeLocalFormatter",
                                                  <<"DateTime", i>>, <<>>),
                              !.n = @ + 1]
    /\ UNCHANGED <<date_vars, time_vars, date_time_vars, logger>>

\* Date / Time / DateTime ::toString()
FormatToString ==
    /\ fmt.n < MaxFormatOps
    /\ \E o \in Objects :
           LET r == toString(fmt, o)
           IN fmt' = [fmt EXCEPT !.global = r.globals,
                                 !.last = FormatCall("toString", o, r.text),
                                 !.n = @ + 1]
    /\ UNCHANGED <<date_vars, time_vars, date_time_vars, logger>>

FormatNext ==
    \/ FormatSetGlobal
    \/ FormatSetLocal
    \/ FormatSetDateLocal
    \/ FormatSetTimeLocal
    \/ FormatToString

SpecFormat == Init /\ [][FormatNext]_vars

----------------------------------------------------------------------------
(* The formatter slots with several threads.  toString is cut where        *)
(* another thread can run in between: the test of m_formatter_global, the  *)
(* assignment of the built-in formatter, and the call of the formatter.    *)
(* Nothing in the three classes synchronises these steps.                  *)

\* calls started in one run, over all threads
MaxThreadCalls == 3

\* setGlobalFormatter(f) run by thread t to its return; one install per type
ThreadSetGlobal ==
    /\ fmt.n < MaxThreadCalls
    /\ \E t \in Callers, type \in Types, p_formatter \in CustomFormatters :
           /\ fmt.threads[t].pc = "idle"
           /\ fmt.installed[type] = "never"
           /\ fmt' = [fmt EXCEPT !.global[type] = p_formatter,
                                 !.installed[type] = p_formatter,
                                 !.n = @ + 1]
    /\ UNCHANGED <<date_vars, time_vars, date_time_vars, logger>>

\* toString: if (not m_formatter_global)
ThreadToStringTest ==
    /\ fmt.n < MaxThreadCalls
    /\ \E t \in Callers, o \in Objects :
           /\ fmt.threads[t].pc = "idle"
           /\ fmt' = [fmt EXCEPT
                         !.threads[t] = [pc |-> IF fmt.global[o[1]] = "empty" THEN "assign"
                                                ELSE "call",
                                         o |-> o,
                                         after |-> fmt.installed[o[1]],
                                         text |-> <<>>,
                                         finished |-> FALSE],
                         !.n = @ + 1]
    /\ UNCHANGED <<date_vars, time_vars, date_time_vars, logger>>

\* toString: m_formatter_global = g_default_global_formatter
ThreadAssignDefault ==
    /\ \E t \in Callers :
           /\ fmt.threads[t].pc = "assign"
           /\ fmt' = [fmt EXCEPT !.global[fmt.threads[t].o[1]] = "default",
                                 !.threads[t].pc = "call"]
    /\ UNCHANGED <<date_vars, time_vars, date_time_vars, logger>>

\* toString: the test of m_formatter_local and the call of the formatter
ThreadCallFormatter ==
    /\ \E t \in Callers :
           LET r == toString(fmt, fmt.threads[t].o)
           IN /\ fmt.threads[t].pc = "call"
              /\ fmt' = [fmt EXCEPT !.global = r.globals,
                                    !.threads[t].pc = "idle",
                                    !.threads[t].text = r.text,
                                    !.threads[t].finished = TRUE]
    /\ UNCHANGED <<date_vars, time_vars, date_time_vars, logger>>

FormatThreadsNext ==
    \/ ThreadSetGlobal
    \/ ThreadToStringTest
    \/ ThreadAssignDefault
    \/ ThreadCallFormatter

SpecFormatThreads == Init /\ [][FormatThreadsNext]_vars

----------------------------------------------------------------------------
(* A Log object as a state machine: calls made one after another by a      *)
(* single caller.                                                          *)

\* longest sequence of calls explored on one Log
MaxLogOps == 3

LogFormatters == {"f"}

LogCall(op, type, err) ==
    [op |-> op, type |-> type, err |-> err, sinks |-> logger.sinks,
     m_outputs |-> logger.m_outputs]

\* Log::Log()
LogConstruct ==
    /\ logger.class = "none"
    /\ \E class \in LogClasses :
           logger' = [logger EXCEPT !.class = class,
                                    !.m_outputs = LogCtor(class).m_outputs,
                                    !.m_formatters = LogCtor(class).m_formatters]
    /\ UNCHANGED <<date_vars, time_vars, date_time_vars, fmt>>

\* Log::setOutput(MessageType, std::ostream* / path / std::function)
LogSetOutput ==
    /\ logger.class # "none"
    /\ logger.n < MaxLogOps
    /\ \A t \in Threads : logger.threads[t].pc = "idle"
    /\ \E message_type \in MessageTypes, output \in OutputArguments :
           logger' = [logger EXCEPT !.m_outputs[message_type + 1] = OutputOf(output),
                                    !.last = LogCall("setOutput", message_type, "none"),
                                    !.n = @ + 1]
    /\ UNCHANGED <<date_vars, time_vars, date_time_vars, fmt>>

\* Log::setGlobalOutput(std::ostream* / path / std::function)
LogSetGlobalOutput ==
    /\ logger.class # "none"
    /\ logger.n < MaxLogOps
    /\ \A t \in Threads : logger.threads[t].pc = "idle"
    /\ \E output \in OutputArguments :
           logger' = [logger EXCEPT !.m_outputs = [i \in 1..Len(@) |-> OutputOf(output)],
                                    !.last = LogCall("setGlobalOutput", 0, "none"),
                                    !.n = @ + 1]
    /\ UNCHANGED <<date_vars, time_vars, date_time_vars, fmt>>

\* Log::setFormatter(MessageType, formatter)
LogSetFormatter ==
    /\ logger.class # "none"
    /\ logger.n < MaxLogOps
    /\ \A t \in Threads : logger.threads[t].pc = "idle"
    /\ \E message_type \in MessageTypes, formatter \in LogFormatters :
           logger' = IF InRange(logger.m_formatters, message_type)
                     THEN [logger EXCEPT !.m_formatters[message_type + 1] = formatter,
                                         !.last = LogCall("setFormatter", message_type, "none"),
                                         !.n = @ + 1]
                     ELSE [logger EXCEPT !.last = LogCall("setFormatter", message_type,
                                                          "out_of_range"),
                                         !.n = @ + 1]
    /\ UNCHANGED <<date_vars, time_vars, date_time_vars, fmt>>

\* Log::setGlobalFormatter(formatter)
LogSetGlobalFormatter ==
    /\ logger.class # "none"
    /\ logger.n < MaxLogOps
    /\ \A t \in Threads : logger.threads[t].pc = "idle"
    /\ \E formatter \in LogFormatters :
           logger' = [logger EXCEPT !.m_formatters = [i \in 1..Len(@) |-> formatter],
                                    !.last = LogCall("setGlobalFormatter", 0, "none"),
                                    !.n = @ + 1]
    /\ UNCHANGED <<date_vars, time_vars, date_time_vars, fmt>>

\* Log::write(LogEvent&&)
LogWrite ==
    /\ logger.class # "none"
    /\ logger.n < MaxLogOps
    /\ \E message_type \in MessageTypes :
           logger' = [write(logger, message_type) EXCEPT !.n = @ + 1]
    /\ UNCHANGED <<date_vars, time_vars, date_time_vars, fmt>>

LogNext ==
    \/ LogConstruct
    \/ LogSetOutput
    \/ LogSetGlobalOutput
    \/ LogSetFormatter
    \/ LogSetGlobalFormatter
    \/ LogWrite

SpecLog == Init /\ [][LogNext]_vars

----------------------------------------------------------------------------
(* Log::write called from several threads.  A call is cut where another    *)
(* thread can run in between: the reads made before the visitor runs,      *)
(* taking m_mutex, the output made under it, and what follows its release. *)

\* setter calls made before the threads are started
MaxLogSetup == 1

\* the message types the threads write: Error and Info
WriteTypes == {2, 4}

\* thread t enters write: the monostate test of the singleton, the reads of
\* m_message_types, m_module_name, m_formatters and message_index, the
\* formatting, and the dispatch of std::visit on m_outputs.at(index); none
\* of it holds m_mutex
WriteBegin ==
    /\ logger.class # "none"
    /\ logger.n <= MaxLogSetup
    /\ \E t \in Threads, message_type \in WriteTypes :
           LET output == logger.m_outputs[message_type + 1]
               call == [IdleThread EXCEPT !.type = message_type]
           IN /\ logger.threads[t].pc = "idle"
              /\ logger' =
                   IF logger.class = "singleton" /\ output = "monostate"
                   THEN [logger EXCEPT !.threads[t] =
                            [call EXCEPT !.pc = "done", !.unlocked = {"m_outputs"}]]
                   ELSE IF ~InRange(logger.m_formatters, message_type)
                   THEN [logger EXCEPT !.threads[t] =
                            [call EXCEPT !.pc = "done", !.err = "out_of_range",
                                         !.unlocked = {"m_message_types", "m_formatters"}]]
                   ELSE LET read == [call EXCEPT
                                        !.msg = <<Message(logger, message_type)>>,
                                        !.unlocked = {"m_message_types", "m_formatters",
                                                      "m_outputs"}
                                            \cup (IF logger.class = "template"
                                                  THEN {"message_index"} ELSE {})]
                        IN IF output = "monostate"
                           THEN [logger EXCEPT !.threads[t] = [read EXCEPT !.pc = "return"]]
                           ELSE IF output = "callback"
                           THEN [logger EXCEPT
                                    !.threads[t] = [read EXCEPT !.pc = "return"],
                                    !.sinks["callback"] = @ \o read.msg]
                           ELSE [logger EXCEPT !.threads[t] = [read EXCEPT !.pc = "lock"]]
    /\ UNCHANGED <<date_vars, time_vars, date_time_vars, fmt>>

\* std::scoped_lock lock(m_mutex) in the stream and the path branch
WriteLock ==
    /\ logger.m_mutex = 0
    /\ \E t \in Threads :
           /\ logger.threads[t].pc = "lock"
           /\ logger' = [logger EXCEPT !.m_mutex = t, !.threads[t].pc = "output"]
    /\ UNCHANGED <<date_vars, time_vars, date_time_vars, fmt>>

\* the output made under the lock, to the end of the lock's scope: the
\* stream write, or the file opened, written and closed; when the file does
\* not open the exception leaves the scope and the lock is released as well
WriteOutput ==
    /\ \E t \in Threads :
           LET output == logger.m_outputs[logger.threads[t].type + 1]
           IN /\ logger.threads[t].pc = "output"
              /\ logger.m_mutex = t
              /\ logger' =
                   IF output = "nofile"
                   THEN [logger EXCEPT
                            !.m_mutex = 0,
                            !.threads[t].pc = IF logger.class = "template" THEN "done"
                                              ELSE "report",
                            !.threads[t].err = IF logger.class = "template" THEN "failure"
                                               ELSE "none"]
                   ELSE [logger EXCEPT
                            !.m_mutex = 0,
                            !.sinks[output] = @ \o logger.threads[t].msg,
                            !.threads[t].pc = "return"]
    /\ UNCHANGED <<date_vars, time_vars, date_time_vars, fmt>>

\* after the visitor: ++message_index in the template; in the singleton the
\* handler of std::fstream::failure printing on std::cerr, then the return
WriteReturn ==
    /\ \E t \in Threads :
           /\ logger.threads[t].pc \in {"return", "report"}
           /\ logger' =
                IF logger.threads[t].pc = "report"
                THEN [logger EXCEPT
                         !.sinks["cerr"] = Append(@, FailureReport(logger.threads[t].type)),
                         !.threads[t].pc = "done"]
                ELSE IF logger.class = "template"
                THEN [logger EXCEPT !.message_index = @ + 1,
                                    !.threads[t].pc = "done"]
                ELSE [logger EXCEPT !.threads[t].pc = "done"]
    /\ UNCHANGED <<date_vars, time_vars, date_time_vars, fmt>>

LogThreadsNext ==
    \/ LogConstruct
    \/ LogSetOutput
    \/ LogSetGlobalOutput
    \/ WriteBegin
    \/ WriteLock
    \/ WriteOutput
    \/ WriteReturn

SpecLogThreads == Init /\ [][LogThreadsNext]_vars

----------------------------------------------------------------------------
(* What the documentation promises, stated over the three machines.        *)
(* The calendar and the clock arithmetic on this side are the textbook     *)
(* ones, written independently of the code modelled above.                 *)

GregorianLeap(y) == y % 4 = 0 /\ (y % 100 # 0 \/ y % 400 = 0)

GregorianMonthLength(m, y) ==
    IF m = 2 THEN (IF GregorianLeap(y) THEN 29 ELSE 28)
    ELSE IF m \in {4, 6, 9, 11} THEN 30 ELSE 31

\* (d, m, y) is a day of the Gregorian calendar, not before 1900
RealDate(d, m, y) ==
    /\ y >= 1900
    /\ m \in 1..12
    /\ d >= 1
    /\ d <= GregorianMonthLength(m, y)

\* the month and year n months after (n < 0: before) month m of year y
MonthsLater(m, y, n) ==
    LET total == y * 12 + (m - 1) + n
    IN [month |-> (total % 12) + 1, year |-> total \div 12]

\* day d carried into month m of year y: kept when the month has it
ClampDay(d, m, y) ==
    IF d <= GregorianMonthLength(m, y) THEN d ELSE GregorianMonthLength(m, y)

\* the fields the accessors report for the current Date
DateFields == <<dayOfTheMonth(m_days_since_1900), month(m_days_since_1900),
                year(m_days_since_1900)>>

\* the Date was built from a real day given as three numbers
BuiltFromRealTriple ==
    /\ date_hist.phase = "ok"
    /\ date_hist.in.via = "ymd"
    /\ RealDate(date_hist.in.day, date_hist.in.month, date_hist.in.year)

\* the a mod d of mathematics for d > 0
BigMod(a, d) == LET r == BigRem(a, d) IN IF r.hi < 0 THEN BigAdd(r, d) ELSE r

\* a Time as its constructors make it: the variant holds the alternative
\* of the precision and the count is a time of day
TimeValid(t) ==
    /\ t.alt = t.precision
    /\ t.count.hi >= 0
    /\ BigLt(t.count, in_day[t.alt])

\* the time of day of a Time in nanoseconds
ToNanos(t) == duration_cast(t.count, t.alt, NANOSECONDS)

----------------------------------------------------------------------------
(* Date.                                                                   *)

\* the triple a sample ISO string was written from
IsoWrittenFrom(iso_date, t) == iso_date = Iso10(t[1], t[2], t[3]) \/ iso_date = Iso8(t[1], t[2], t[3])

\* C3: a Date built from a real day (d, m, y), y >= 1900, given as three
\* numbers or as its 'YYYY-MM-DD' / 'YYYYMMDD' string, reports
\* dayOfTheMonth() = d, month() = m, year() = y, and its default toString()
\* is the zero-padded 'YYYY-MM-DD' of the same triple.
C3_ConstructionRoundTrip ==
    /\ (BuiltFromRealTriple /\ date_hist.calls = <<>>)
           => /\ DateFields = <<date_hist.in.day, date_hist.in.month, date_hist.in.year>>
              /\ DateDefaultFormat(m_days_since_1900)
                     = Iso10(date_hist.in.day, date_hist.in.month, date_hist.in.year)
    /\ \A t \in IsoTriples :
           (/\ date_hist.phase = "ok"
            /\ date_hist.in.via = "iso"
            /\ date_hist.calls = <<>>
            /\ RealDate(t[1], t[2], t[3])
            /\ IsoWrittenFrom(date_hist.in.iso, t))
               => /\ DateFields = t
                  /\ DateDefaultFormat(m_days_since_1900) = Iso10(t[1], t[2], t[3])

\* every count the Date has held, the present one last
CountsHeld ==
    [i \in 1..Len(date_hist.calls) + 1 |->
        IF i <= Len(date_hist.calls) THEN date_hist.calls[i].pre ELSE m_days_since_1900]

\* C4: after any sequence of addDays / addMonths / addYears / subtractDays /
\* subtractMonths / subtractYears on a validly constructed Date that stays
\* on or after 1900-01-01 (count 1), the fields denote a real day:
\* 1 <= month() <= 12 and 1 <= dayOfTheMonth() <= the length of that month.
C4_FieldsDenoteRealDay ==
    (/\ BuiltFromRealTriple
     /\ Len(date_hist.calls) >= 1
     /\ \A i \in DOMAIN CountsHeld : CountsHeld[i] >= 1)
        => RealDate(DateFields[1], DateFields[2], DateFields[3])

\* the Date was built from a real day and has had exactly one call, op
OneCallOn(op) ==
    /\ BuiltFromRealTriple
    /\ Len(date_hist.calls) = 1
    /\ date_hist.calls[1].op = op

\* the fields n months after (n < 0: before) the day the Date was built from
MonthsFromInput(n) ==
    LET to == MonthsLater(date_hist.in.month, date_hist.in.year, n)
    IN <<ClampDay(date_hist.in.day, to.month, to.year), to.month, to.year>>

\* C5: addMonths(n), n >= 1, on the Date (d, m, y) yields the month and
\* year exactly n calendar months later, with day d when that month has a
\* day d and its last day otherwise.
C5_AddMonthsExact ==
    OneCallOn("addMonths") => DateFields = MonthsFromInput(date_hist.calls[1].n)

\* C6: subtractMonths(n), n >= 1, from the Date (d, m, y), the result not
\* before 1900-01-01, yields the month and year exactly n calendar months
\* earlier (from every starting month), with day d when that month has a
\* day d and its last day otherwise.
C6_SubtractMonthsExact ==
    (/\ OneCallOn("subtractMonths")
     /\ MonthsFromInput(-date_hist.calls[1].n)[3] >= 1900)
        => DateFields = MonthsFromInput(-date_hist.calls[1].n)

InputIsFeb29 == date_hist.in.day = 29 /\ date_hist.in.month = 2

\* C7: addYears(n), n >= 1, on a Date (d, m, y) other than February 29
\* yields (d, m, y + n).
C7_AddYearsExact ==
    (OneCallOn("addYears") /\ ~InputIsFeb29)
        => DateFields = <<date_hist.in.day, date_hist.in.month,
                          date_hist.in.year + date_hist.calls[1].n>>

\* subtractYears(n) alone: (d, m, y) other than February 29 with
\* y - n >= 1900 becomes (d, m, y - n)
SubtractYearsExact ==
    (/\ OneCallOn("subtractYears")
     /\ ~InputIsFeb29
     /\ date_hist.in.year - date_hist.calls[1].n >= 1900)
        => DateFields = <<date_hist.in.day, date_hist.in.month,
                          date_hist.in.year - date_hist.calls[1].n>>

\* addYears(n) followed by subtractYears(n) on a Date other than February 29
\* leaves the Date it started from
AddThenSubtractYearsRestores ==
    (/\ BuiltFromRealTriple
     /\ ~InputIsFeb29
     /\ Len(date_hist.calls) = 2
     /\ date_hist.calls[1].op = "addYears"
     /\ date_hist.calls[2].op = "subtractYears"
     /\ date_hist.calls[1].n = date_hist.calls[2].n)
        => m_days_since_1900 = date_hist.calls[1].pre

\* C8: subtractYears(n), n >= 1, y - n >= 1900, on a Date (d, m, y) other
\* than February 29 yields (d, m, y - n); consequently addYears(n) followed
\* by subtractYears(n) restores the original Date.
C8_SubtractYearsInverse == SubtractYearsExact /\ AddThenSubtractYearsRestores

\* the Julian day number of a day of the Gregorian calendar
JulianDayNumber(d, m, y) ==
    LET a == (14 - m) \div 12
        yy == y + 4800 - a
        mm == m + 12 * a - 3
    IN d + ((153 * mm + 2) \div 5) + 365 * yy + (yy \div 4) - (yy \div 100)
         + (yy \div 400) - 32045

\* 1 = Monday .. 6 = Saturday, 7 = Sunday
IsoWeekday(d, m, y) == (JulianDayNumber(d, m, y) % 7) + 1

\* C14: isWeekend() is true exactly when the Date falls on a Saturday or a
\* Sunday and false from Monday to Friday.
C14_WeekendIsSaturdaySunday ==
    (BuiltFromRealTriple /\ date_hist.calls = <<>>)
        => (isWeekend(m_days_since_1900)
              <=> IsoWeekday(date_hist.in.day, date_hist.in.month, date_hist.in.year)
                      \in {6, 7})

\* the three-number constructor has run
BuiltFromTriple == date_hist.in.via = "ymd" /\ date_hist.phase \in {"ok", "threw"}

\* C17: Date(day, month, year) fails with std::range_error exactly when
\* year < 1900, or day is outside 1..31, or month is outside 1..12, or day
\* exceeds the length of the month in that year; Date(29, 2, 2023) fails.
C17_TripleRangeError ==
    BuiltFromTriple
        => LET d == date_hist.in.day
               m == date_hist.in.month
               y == date_hist.in.year
               bad == \/ y < 1900
                      \/ d \notin 1..31
                      \/ m \notin 1..12
                      \/ d > GregorianMonthLength(m, y)
           IN /\ (date_hist.phase = "threw") <=> bad
              /\ date_hist.phase = "threw" => date_hist.err = "range_error"
              /\ <<d, m, y>> = <<29, 2, 2023>> => date_hist.phase = "threw"

\* Date(29, 2, 2023) was tried and failed
C17_Feb29Rejected ==
    /\ BuiltFromTriple
    /\ <<date_hist.in.day, date_hist.in.month, date_hist.in.year>> = <<29, 2, 2023>>
    /\ date_hist.phase = "threw"
    /\ date_hist.err = "range_error"

\* the text is laid out as YYYYMMDD, or as YYYY-MM-DD with its hyphens at
\* the 0-based positions 4 and 7
InDateLayout(text) ==
    \/ Len(text) = 8 /\ \A i \in 1..8 : IsDigit(text[i])
    \/ /\ Len(text) = 10
       /\ text[5] = "-"
       /\ text[8] = "-"
       /\ \A i \in (1..10) \ {5, 8} : IsDigit(text[i])

\* the day, month and year a text in one of the layouts denotes
NumberAt(text, first, last) == StoiDigits(SubSeq(text, first, last), 1, 0)
LayoutTriple(text) ==
    IF Len(text) = 8
    THEN <<NumberAt(text, 7, 8), NumberAt(text, 5, 6), NumberAt(text, 1, 4)>>
    ELSE <<NumberAt(text, 9, 10), NumberAt(text, 6, 7), NumberAt(text, 1, 4)>>

\* the string constructor has run
BuiltFromText == date_hist.in.via = "iso" /\ date_hist.phase \in {"ok", "threw"}

\* C18: the string constructor succeeds only for a text in one of the two
\* layouts that denotes a valid date; a text of another length or with
\* another character fails with std::invalid_argument, a text in a layout
\* whose fields are out of range fails with std::range_error, and no Date is
\* made from a text that is in neither layout.
C18_TextLayouts ==
    BuiltFromText
        => LET text == date_hist.in.iso
               t == LayoutTriple(text)
               other_char == \E i \in 1..Len(text) : ~IsDigit(text[i]) /\ text[i] # "-"
           IN /\ date_hist.phase = "ok"
                    <=> (InDateLayout(text) /\ RealDate(t[1], t[2], t[3]))
              /\ (Len(text) \notin {8, 10} \/ other_char)
                    => date_hist.err = "invalid_argument"
              /\ (InDateLayout(text) /\ ~RealDate(t[1], t[2], t[3]))
                    => date_hist.err = "range_error"

\* call i was addDays(n) and call i + 1 was subtractDays(n) with the same n
AddThenSubtractDays(i) ==
    /\ i + 1 <= Len(date_hist.calls)
    /\ date_hist.calls[i].op = "addDays"
    /\ date_hist.calls[i + 1].op = "subtractDays"
    /\ date_hist.calls[i + 1].n = date_hist.calls[i].n

\* C22: on every valid Date d and for every n, d.addDays(n) followed by
\* d.subtractDays(n) leaves a Date equal to the original d.
C22_AddSubtractDaysInverse ==
    date_hist.phase = "ok"
        => \A i \in DOMAIN date_hist.calls :
               AddThenSubtractDays(i)
                   => /\ CountsHeld[i + 2] = date_hist.calls[i].pre
                      /\ DateEq(CountsHeld[i + 2], date_hist.calls[i].pre)

\* a Date built from a real day has had addDays(366) and subtractDays(366)
C22_YearAddedAndTakenBack ==
    /\ BuiltFromRealTriple
    /\ AddThenSubtractDays(1)
    /\ date_hist.calls[1].n = 366
    /\ m_days_since_1900 = date_hist.calls[1].pre

\* C23: for every year, isLeapYear(year) is true exactly when the year is
\* divisible by 4 and not by 100, or divisible by 400: false for 1900 and
\* 2023, true for 1996, 2000 and 2024.
C23_LeapYearRule ==
    date_hist.phase = "static"
        => /\ date_hist.leap <=> GregorianLeap(date_hist.in.year)
           /\ date_hist.in.year \in {1900, 2023} => ~date_hist.leap
           /\ date_hist.in.year \in {1996, 2000, 2024} => date_hist.leap

\* isLeapYear(1900) was called and returned false
C23_NotLeap1900 ==
    /\ date_hist.phase = "static"
    /\ date_hist.in.year = 1900
    /\ ~date_hist.leap

\* leap years among the years 1900 .. y - 1
LeapYearsFrom1900To(y) ==
    LET through(n) == (n \div 4) - (n \div 100) + (n \div 400)
    IN through(y - 1) - through(1899)

\* days of the months before month m in a year of 365 days
DaysBeforeMonth == <<0, 31, 59, 90, 120, 151, 181, 212, 243, 273, 304, 334>>

\* 365 or 366 for each full year from 1900 up to y, the real lengths of the
\* months before m in y, and d
DocumentedDayCount(d, m, y) ==
    365 * (y - 1900) + LeapYearsFrom1900To(y)
      + DaysBeforeMonth[m] + (IF m > 2 /\ GregorianLeap(y) THEN 1 ELSE 0)
      + d

\* C27: for every valid (day, month, year) the count stored by
\* Date(day, month, year) is the number of days of the full years from 1900
\* to year, plus the lengths of the months before month, plus day (so that
\* consecutive days differ by 1 and < and == follow the calendar).
C27_CountIsCalendarDay ==
    (BuiltFromRealTriple /\ date_hist.calls = <<>>)
        => m_days_since_1900 = DocumentedDayCount(date_hist.in.day, date_hist.in.month,
                                                  date_hist.in.year)

\* the Date as its constructor left it, before any add / subtract call
DateAsBuilt ==
    DateCtorDays(date_hist.in.day, date_hist.in.month, date_hist.in.year)

ExactlyOne(p, q, r) == (p /\ ~q /\ ~r) \/ (~p /\ q /\ ~r) \/ (~p /\ ~q /\ r)

\* C28: for Dates a and b exactly one of a < b, a == b, a > b is true;
\* a > b iff b < a; a <= b iff not a > b; a >= b iff not a < b; a != b iff
\* not a == b; a > a is false.  Here a is the Date as built and b the same
\* object after the add / subtract calls made on it.
C28_DateTotalOrder ==
    BuiltFromRealTriple
        => LET a == DateAsBuilt
               b == m_days_since_1900
           IN /\ ExactlyOne(DateLt(a, b), DateEq(a, b), DateGt(a, b))
              /\ DateGt(a, b) <=> DateLt(b, a)
              /\ DateLe(a, b) <=> ~DateGt(a, b)
              /\ DateGe(a, b) <=> ~DateLt(a, b)
              /\ DateNe(a, b) <=> ~DateEq(a, b)
              /\ ~DateGt(a, a)

----------------------------------------------------------------------------
(* Time.                                                                   *)

\* the unit of the argument of an add* / subtract* call
UnitOf(op) ==
    CASE op \in {"addHours", "subtractHours"} -> HOURS
      [] op \in {"addMinutes", "subtractMinutes"} -> MINUTES
      [] op \in {"addSeconds", "subtractSeconds"} -> SECONDS
      [] op \in {"addMilliseconds", "subtractMilliseconds"} -> MILLISECONDS
      [] op \in {"addMicroseconds", "subtractMicroseconds"} -> MICROSECONDS
      [] op \in {"addNanoseconds", "subtractNanoseconds"} -> NANOSECONDS

Subtracts(op) ==
    op \in {"subtractHours", "subtractMinutes", "subtractSeconds", "subtractMilliseconds",
            "subtractMicroseconds", "subtractNanoseconds", "-="}

IsOperator(op) == op \in {"+=", "-="}

\* the last call made on the Time
LastTimeCall == time_hist.calls[Len(time_hist.calls)]

\* (pre +/- n ticks of the call's unit, in ticks of the precision) modulo
\* one day.  n is reduced modulo the number of its units in a day first,
\* which does not change the result.
WrappedSum(call) ==
    LET p == call.pre.precision
        k == in_unit[UnitOf(call.op)][p]
        delta == BigMul(BigMod(call.n, BigDiv(in_day[p], k)), k)
    IN BigMod(IF Subtracts(call.op) THEN BigSub(call.pre.count, delta)
              ELSE BigAdd(call.pre.count, delta), in_day[p])

\* C1: after any sequence of add* / subtract* calls on a validly constructed
\* Time the stored value v satisfies 0 <= v < D (D the number of precision
\* units in a day) and hours() is in 0..23; each call with a unit coarser
\* than or equal to the precision sets v to (old v +/- the amount in
\* precision units) modulo D.
C1_WrapsModuloDay ==
    (/\ time_hist.phase = "ok"
     /\ \A i \in DOMAIN time_hist.calls : ~IsOperator(time_hist.calls[i].op))
        => /\ m_time_since_day_start.count.hi >= 0
           /\ BigLt(m_time_since_day_start.count, in_day[m_time_since_day_start.alt])
           /\ hours(ThisTime) \in 0..23
           /\ (/\ time_hist.calls # <<>>
               /\ TimeValid(LastTimeCall.pre)
               /\ UnitOf(LastTimeCall.op) <= LastTimeCall.pre.precision)
                  => m_time_since_day_start.count = WrappedSum(LastTimeCall)

\* C2: no add* / subtract* call, and no += / -= (operator+ / operator-),
\* on a valid Time raises an error, whatever the precisions and the argument.
C2_ArithmeticNeverThrows ==
    \A i \in DOMAIN time_hist.calls :
        TimeValid(time_hist.calls[i].pre) => time_hist.calls[i].err = "none"

\* C10: l + r and l - r (reached through l += r and l -= r, which assign
\* them to l) have precision max(l.precision, r.precision) and the time of
\* day of l plus (minus) the time of day of r, modulo one day.
C10_OperatorSum ==
    (/\ time_hist.calls # <<>>
     /\ IsOperator(LastTimeCall.op)
     /\ TimeValid(LastTimeCall.pre))
        => /\ LastTimeCall.err = "none"
           /\ m_precision = MaxPrecision(LastTimeCall.pre, LastTimeCall.n)
           /\ m_time_since_day_start.alt = m_precision
           /\ ToNanos(ThisTime)
                  = BigMod(IF Subtracts(LastTimeCall.op)
                           THEN BigSub(ToNanos(LastTimeCall.pre), ToNanos(LastTimeCall.n))
                           ELSE BigAdd(ToNanos(LastTimeCall.pre), ToNanos(LastTimeCall.n)),
                           in_day[NANOSECONDS])

IsAddSubtract(op) ==
    op \in {"addHours", "addMinutes", "addSeconds", "addMilliseconds", "addMicroseconds",
            "addNanoseconds", "subtractHours", "subtractMinutes", "subtractSeconds",
            "subtractMilliseconds", "subtractMicroseconds", "subtractNanoseconds"}

\* the last call was add* / subtract* with a unit strictly finer than the
\* precision of the valid Time it was made on
LastCallFiner ==
    /\ time_hist.calls # <<>>
    /\ IsAddSubtract(LastTimeCall.op)
    /\ TimeValid(LastTimeCall.pre)
    /\ UnitOf(LastTimeCall.op) > LastTimeCall.pre.precision

\* C11: add* / subtract* with a unit strictly finer than the precision of
\* the Time is a no-op for every n: the stored duration, the precision and
\* the offset are unchanged (and the call returns).
C11_FinerUnitNoOp ==
    LastCallFiner => (ThisTime = LastTimeCall.pre /\ LastTimeCall.err = "none")

\* C12: the precision of a Time is fixed at construction: no add* /
\* subtract* call and no += / -= changes what precision() returns.
C12_PrecisionFixed ==
    \A i \in DOMAIN time_hist.calls :
        /\ time_hist.calls[i].pre.precision = time_hist.calls[1].pre.precision
        /\ m_precision = time_hist.calls[1].pre.precision

\* C13: two Times of different precisions are unordered: ==, <, >, <= and
\* >= are all false and != is true; with equal precisions the operators
\* compare the stored durations.
C13_MixedPrecisionUnordered ==
    dt_result.phase = "times"
        => LET l == dt_a.m_time
               r == dt_b.m_time
           IN IF l.precision # r.precision
              THEN /\ ~dt_result.eq /\ ~dt_result.lt /\ ~dt_result.gt
                   /\ ~dt_result.le /\ ~dt_result.ge
                   /\ dt_result.ne
              ELSE /\ dt_result.eq <=> (l.count = r.count)
                   /\ dt_result.ne <=> (l.count # r.count)
                   /\ dt_result.lt <=> BigLt(l.count, r.count)
                   /\ dt_result.le <=> BigLe(l.count, r.count)
                   /\ dt_result.gt <=> BigGt(l.count, r.count)
                   /\ dt_result.ge <=> BigLe(r.count, l.count)

\* the last call was toString, made on a valid Time whose offset is one of
\* the time zones
LastCallToString ==
    /\ time_hist.calls # <<>>
    /\ LastTimeCall.op = "toString"
    /\ TimeValid(LastTimeCall.pre)
    /\ LastTimeCall.pre.offset \in TimeZones

\* HH:MM[:SS[.mmm[.mmm[.nnn]]]] of the precision, then the sign and two
\* digits of the offset
LayoutText(t) ==
    Pad2(hours(t)) \o <<":">> \o Pad2(minutes(t))
      \o (IF t.precision >= SECONDS THEN <<":">> \o Pad2(seconds(t)) ELSE <<>>)
      \o (IF t.precision >= MILLISECONDS THEN <<".">> \o Pad3(milliseconds(t)) ELSE <<>>)
      \o (IF t.precision >= MICROSECONDS THEN <<".">> \o Pad3(microseconds(t)) ELSE <<>>)
      \o (IF t.precision >= NANOSECONDS THEN <<".">> \o Pad3(nanoseconds(t)) ELSE <<>>)
      \o (IF t.offset < 0 THEN <<"-">> \o Pad2(0 - t.offset) ELSE <<"+">> \o Pad2(t.offset))

\* C15: the default toString() of a Time is the layout of its precision
\* followed by the sign and exactly two digits of the offset hours, and the
\* string constructor turns that text back into an equal Time of the same
\* precision and offset, for every offset from -12 to +12.
C15_TextRoundTrip ==
    LastCallToString
        => /\ LastTimeCall.n = LayoutText(LastTimeCall.pre)
           /\ TimeFromString(LastTimeCall.n) = Ok(LastTimeCall.pre)

\* C16: every Time that was constructed, and every Time that was modified,
\* carries an offset from -12 to +12 hours; a text whose offset is outside
\* that range is not accepted by the string constructor.
C16_OffsetInRange ==
    /\ time_hist.phase = "ok" => m_offset \in TimeZones
    /\ time_hist.in.via = "string"
           => (time_hist.in.text \in FarOffsetTimeStrings => time_hist.phase = "threw")

\* a constructor taking the fields as numbers has run
BuiltFromFields == time_hist.in.via = "fields" /\ time_hist.phase \in {"ok", "threw"}

\* the largest value of hours, minutes, seconds and the sub-second fields
FieldLimits == <<23, 59, 59, 999, 999, 999>>

\* what the six accessors return
TimeFieldsRead(t) ==
    <<hours(t), minutes(t), seconds(t), milliseconds(t), microseconds(t), nanoseconds(t)>>

\* C19: each constructor taking two to six fields succeeds exactly when
\* hours <= 23, minutes <= 59, seconds <= 59 and every sub-second field
\* <= 999, and fails with std::range_error otherwise; on success the
\* precision is the one of the last field given, the offset is UTC, the
\* accessors return the fields given and the finer accessors return 0.
C19_FieldConstructors ==
    BuiltFromFields
        => LET f == time_hist.in.fields
               good == \A i \in 1..Len(f) : f[i] <= FieldLimits[i]
           IN /\ time_hist.phase = "ok" <=> good
              /\ time_hist.phase = "threw" => time_hist.err = "range_error"
              /\ (time_hist.phase = "ok" /\ time_hist.calls = <<>>)
                    => /\ m_precision = MINUTES + (Len(f) - 2)
                       /\ m_offset = UTC
                       /\ TimeFieldsRead(ThisTime)
                              = f \o [i \in 1..(6 - Len(f)) |-> 0]

\* Time(10, 15, 30, 500) was built: milliseconds precision, the two finer
\* accessors return 0
C19_MillisecondsBuilt ==
    /\ BuiltFromFields
    /\ time_hist.phase = "ok"
    /\ time_hist.calls = <<>>
    /\ time_hist.in.fields = <<10, 15, 30, 500>>
    /\ m_precision = MILLISECONDS
    /\ microseconds(ThisTime) = 0
    /\ nanoseconds(ThisTime) = 0

\* the string constructor of Time has run
BuiltFromTimeText == time_hist.in.via = "string" /\ time_hist.phase \in {"ok", "threw"}

\* the text ends with a signed hour: a sign and two digits
SignedHourSuffix(text) ==
    /\ Len(text) >= 3
    /\ text[Len(text) - 2] \in {"+", "-"}
    /\ IsDigit(text[Len(text) - 1])
    /\ IsDigit(text[Len(text)])

\* the text without its signed hour, if it has one
WithoutOffset(text) ==
    IF SignedHourSuffix(text) THEN SubSeq(text, 1, Len(text) - 3) ELSE text

\* HH:MM[:SS[.mmm[.mmm[.nnn]]]]: ':' at the 0-based positions 2 and 5, '.'
\* at 8, 12 and 16, digits elsewhere, and one of the five lengths
TimeGrammar(rest) ==
    /\ Len(rest) \in {5, 8, 12, 16, 20}
    /\ \A i \in 1..Len(rest) :
           IF i - 1 \in {2, 5} THEN rest[i] = ":"
           ELSE IF i - 1 \in {8, 12, 16} THEN rest[i] = "."
           ELSE IsDigit(rest[i])

\* the fields a text of the grammar denotes
GrammarFields(rest) ==
    <<NumberAt(rest, 1, 2), NumberAt(rest, 4, 5)>>
      \o (IF Len(rest) >= 8 THEN <<NumberAt(rest, 7, 8)>> ELSE <<>>)
      \o (IF Len(rest) >= 12 THEN <<NumberAt(rest, 10, 12)>> ELSE <<>>)
      \o (IF Len(rest) >= 16 THEN <<NumberAt(rest, 14, 16)>> ELSE <<>>)
      \o (IF Len(rest) >= 20 THEN <<NumberAt(rest, 18, 20)>> ELSE <<>>)

\* C20: the string constructor of Time takes a trailing signed hour off the
\* text and accepts what remains only if it follows the per-position
\* grammar with a length of 5, 8, 12, 16 or 20, which gives the precision
\* MINUTES .. NANOSECONDS; any other length and any violation of the
\* grammar fails with std::invalid_argument, and a text of the grammar with
\* a field out of range fails with std::range_error.
C20_TimeTextGrammar ==
    BuiltFromTimeText
        => LET rest == WithoutOffset(time_hist.in.text)
               f == GrammarFields(rest)
               in_range == \A i \in 1..Len(f) : f[i] <= FieldLimits[i]
           IN IF ~TimeGrammar(rest)
              THEN time_hist.phase = "threw" /\ time_hist.err = "invalid_argument"
              ELSE IF ~in_range
              THEN time_hist.phase = "threw" /\ time_hist.err = "range_error"
              ELSE /\ time_hist.phase = "ok"
                   /\ time_hist.calls = <<>> => m_precision = MINUTES + (Len(f) - 2)

\* C29: in every Time value the alternative held by the variant is the
\* one of the precision tag, after every constructor, add*, subtract*, +=
\* and -= (operator+ and operator- are the same code applied to a copy),
\* operands of different precisions included.
C29_AlternativeMatchesPrecision ==
    time_hist.phase = "ok" => m_time_since_day_start.alt = m_precision

----------------------------------------------------------------------------
(* DateTime.                                                               *)

\* C9: a < b holds iff a.date() < b.date(), or a.date() == b.date() and
\* a.time() < b.time().
C9_DateMajorTimeMinor ==
    dt_result.phase = "done"
        => (dt_result.lt
              <=> \/ DateLt(dt_a.m_date, dt_b.m_date)
                  \/ (DateEq(dt_a.m_date, dt_b.m_date) /\ TimeLt(dt_a.m_time, dt_b.m_time)))

\* dt_a was made, or refused, by the string constructor
BuiltFromDateTimeText == dt_a.phase \in {"ok", "threw"} /\ "text" \in DOMAIN dt_a

\* the part of the text before its first 'T' and the part after it
BeforeT(text) == SubSeq(text, 1, (CHOOSE i \in 1..Len(text) :
                                     text[i] = "T" /\ \A j \in 1..(i - 1) : text[j] # "T") - 1)
AfterT(text) == SubSeq(text, Len(BeforeT(text)) + 2, Len(text))

\* dt_a is a DateTime exactly when both parsers accepted their part, and
\* otherwise carries the error of the first parser that refused
PartsDecide(l_date, l_time) ==
    /\ dt_a.phase = "ok" <=> (l_date.err = "none" /\ l_time.err = "none")
    /\ dt_a.phase = "threw"
          => dt_a.err = (IF l_date.err # "none" THEN l_date.err ELSE l_time.err)

\* C21: the string constructor of DateTime splits the text at its first
\* 'T', reads the Date from the left part and the Time from the right part,
\* and fails with std::invalid_argument, the error of the Date and Time
\* parsers for malformed texts, when the text holds no 'T'.
C21_SplitAtT ==
    BuiltFromDateTimeText
        => IF \A i \in 1..Len(dt_a.text) : dt_a.text[i] # "T"
           THEN dt_a.phase = "threw" /\ dt_a.err = "invalid_argument"
           ELSE PartsDecide(DateFromIso(BeforeT(dt_a.text)),
                            TimeFromString(AfterT(dt_a.text)))

----------------------------------------------------------------------------
(* Formatters.                                                             *)

\* the formatter documented to print a value: the object's own when one is
\* set, else the one last installed for the type, else the built-in one
DocumentedFormatter(own, last_installed) ==
    IF own # "empty" THEN own
    ELSE IF last_installed \in CustomFormatters THEN last_installed
    ELSE "default"

DocumentedText(f, o) ==
    LET text == f.default_text[o]
        own_type == DocumentedFormatter(f.local[o], f.installed[o[1]])
        of_date == DocumentedFormatter(f.date_local[o[2]], f.installed["Date"])
        of_time == DocumentedFormatter(f.time_local[o[2]], f.installed["Time"])
    IN IF own_type # "default" THEN CallFormatter(own_type, text)
       ELSE IF o[1] = "Date" THEN text.date
       ELSE IF o[1] = "Time" THEN text.time
       ELSE (IF of_date = "default" THEN text.date
             ELSE CallFormatter(of_date, [text EXCEPT !.time = <<>>]))
            \o <<"T">>
            \o (IF of_time = "default" THEN text.time
                ELSE CallFormatter(of_time, [text EXCEPT !.date = <<>>]))

\* C24: toString() of a Date, Time or DateTime returns the text of the
\* object's local formatter when one is set, else of the formatter last
\* installed by setGlobalFormatter, else of the built-in default; setting a
\* local formatter on one object leaves the text of every other object as
\* it was; no formatter call changes the value of any object (equality and
\* ordering are functions of the value alone).
C24_FormatterChoice ==
    /\ fmt.value = ObjectValues
    /\ fmt.default_text = DefaultTexts
    /\ fmt.last.op = "toString" => fmt.last.text = DocumentedText(fmt, fmt.last.o)
    /\ fmt.last.op \in {"setLocalFormatter", "setDateLocalFormatter", "setTimeLocalFormatter"}
         => \A o \in Objects \ {fmt.last.o} : toString(fmt, o).text = fmt.last.before[o]

\* a Date with its own formatter g printed while f is the installed global one
C24_LocalOverGlobal ==
    /\ fmt.last.op = "toString"
    /\ fmt.last.o = <<"Date", 1>>
    /\ fmt.local[fmt.last.o] = "g"
    /\ fmt.installed["Date"] = "f"
    /\ fmt.last.text = CallFormatter("g", fmt.default_text[fmt.last.o])

\* C30: a formatter f installed with setGlobalFormatter is never replaced by
\* the built-in default, whatever the interleaving with toString calls of
\* other threads, the first toString of the process included: the slot keeps
\* f, and every toString started after setGlobalFormatter(f) returned, on
\* an object without a local formatter, returns the text of f.
C30_InstalledFormatterKept ==
    /\ \A type \in Types :
           fmt.installed[type] \in CustomFormatters => fmt.global[type] = fmt.installed[type]
    /\ \A t \in Callers :
           LET call == fmt.threads[t]
           IN (call.finished /\ call.after \in CustomFormatters
                 /\ fmt.local[call.o] = "empty")
                  => call.text = CallFormatter(call.after, fmt.default_text[call.o])

----------------------------------------------------------------------------
(* Log.                                                                    *)

\* the formatter documented for a message type: the one set for it, else
\* the default layout
DocumentedLayout(l, type) ==
    IF InRange(l.m_formatters, type) /\ l.m_formatters[type + 1] # "empty"
    THEN l.m_formatters[type + 1]
    ELSE "default"

\* the sinks after one message of the given type has been handed to output
DeliveredTo(sinks, output, type, layout) ==
    [s \in Sinks |->
        IF s = output /\ Len(sinks[s]) > 0
        THEN /\ Len(sinks[s]) = Len(logger.last.sinks[s]) + 1
             /\ SubSeq(sinks[s], 1, Len(sinks[s]) - 1) = logger.last.sinks[s]
             /\ sinks[s][Len(sinks[s])].type = type
             /\ sinks[s][Len(sinks[s])].layout = layout
        ELSE s # output /\ sinks[s] = logger.last.sinks[s]]

\* C25: a write on a Log of include/log.hpp, fresh or after any setOutput /
\* setGlobalOutput / setFormatter / setGlobalFormatter calls, completes and
\* hands exactly one message, laid out by the formatter of its type (the
\* default layout when none was set), to the output configured for that
\* type; when that output was disabled with nullptr nothing is emitted; the
\* outputs of the other types are untouched.
C25_WriteDelivers ==
    (logger.class = "template" /\ logger.last.op = "write")
        => LET type == logger.last.type
               output == logger.m_outputs[type + 1]
           IN /\ logger.m_outputs = logger.last.m_outputs
              /\ IF output = "monostate" THEN logger.sinks = logger.last.sinks
                 ELSE IF output = "nofile" THEN TRUE
                 ELSE /\ logger.last.err = "none"
                      /\ \A s \in Sinks :
                             DeliveredTo(logger.sinks, output, type,
                                         DocumentedLayout(logger, type))[s]

\* thread t is inside a call of write
InWrite(t) == logger.threads[t].pc \notin {"idle", "done"}

\* thread t is printing: the output of its message or the failure report
Printing(t) == logger.threads[t].pc \in {"output", "report"}

\* C26: with stream and path outputs, under every interleaving of write
\* calls, a thread prints only while it holds the logger mutex (so two
\* outputs never overlap), the mutex is free again once every call has
\* ended, whatever the path, and no member of the logger, the message
\* counter included, is accessed without the mutex by two calls in progress
\* at the same time.
C26_WriteThreadSafe ==
    (\A i \in 1..Len(logger.m_outputs) : logger.m_outputs[i] # "callback")
        => /\ \A t \in Threads : Printing(t) => logger.m_mutex = t
           /\ (\A t \in Threads : ~InWrite(t)) => logger.m_mutex = 0
           /\ \A t1, t2 \in Threads :
                  (t1 # t2 /\ InWrite(t1) /\ InWrite(t2))
                      => logger.threads[t1].unlocked \cap logger.threads[t2].unlocked = {}

====
